---- MODULE Spec2Model ----
(***************************************************************************)
(* stereo-unity-gain: the two real-time engines (LevelMeter in            *)
(* src/src/level_meter.rs, ToneGenerator in src/src/tone_generator.rs),   *)
(* their device/channel hot-swap handlers, the LevelMeter control loop    *)
(* and the sample queue between the input callback and the analysis       *)
(* thread.                                                                *)
(*                                                                        *)
(* The two engines share no state.  A behaviour follows one engine, named *)
(* by the variable engine, which Init chooses and no action changes.      *)
(* A handler of the engine is executed by one control thread; pc is that  *)
(* thread's position in the handler, one value per host call or           *)
(* assignment group of the source.  The host (device set, stream          *)
(* play/pause/build outcomes) is the environment and is nondeterministic. *)
(***************************************************************************)
EXTENDS Integers, Sequences, FiniteSets

VARIABLES
    engine,         \* "LevelMeter" | "ToneGenerator": the engine observed
    present,        \* names of the devices the host enumerates now
    device,         \* self.input_device / self.output_device (a name)
    current_device, \* self.current_input_device / current_output_device
    stream,         \* self.input_stream / self.output_stream
    pending,        \* a stream built by create_*_stream, not yet assigned
    pc,             \* position of the control thread
    op,             \* the handler being executed
    via,            \* "run": called from LevelMeter::run; "call": called directly
    arg,            \* the handler's arguments
    idx,            \* resolved channel indexes (local of the handler)
    local,          \* the default-device record computed by reset_to_default_*
    result,         \* what the last finished handler returned
    chan,           \* the engine's command channel (ui_command_receiver)
    display,        \* notifications sent to the display collaborator, not yet read
    exited,         \* the process called exit()
    sample_queue,   \* the ring buffer between sample_producer and sample_consumer
    producer_poisoned, \* the Mutex around sample_producer is poisoned
    stderr,         \* kinds of message written to standard error so far
    analysis,       \* the analysis thread: "none" before run(), then "running"
    left_collection,   \* left_input_buffer_collection of the analysis thread
    right_collection,  \* right_input_buffer_collection of the analysis thread
    last_peak,      \* (last_left_peak, last_right_peak) of the analysis thread
    emitted,        \* left, right, delta_mode_enabled and reference_level of the
                    \* analysis thread's last turn that sent an update
    delta_mode_enabled, \* the shared delta-mode cell
    reference_level, \* the shared reference-level cell, in hundredths of a dB
    tone_chan,      \* the ToneGenerator's command channel (ui_command_receiver)
    tone,           \* what the output callback keeps between invocations
    out_data,       \* the buffer of the last output callback, before and after
    manager,        \* the DeviceManager: its snapshots and its place in run()
    ui,             \* the UI loop: its device lists, current devices and place
    threads,        \* the threads start_level_meter spawned, each one's place
    reference_tone  \* self.reference_tone of the ToneGenerator

ctlVars == <<engine, present, device, current_device, stream, pending, pc, op,
             via, arg, idx, local, result, chan>>
audioVars == <<sample_queue, producer_poisoned, stderr, analysis,
               left_collection, right_collection, last_peak, emitted,
               delta_mode_enabled, reference_level>>
sideVars == <<tone_chan, tone, out_data, manager, ui, threads, reference_tone>>
vars == <<engine, present, device, current_device, stream, pending, pc, op,
          via, arg, idx, local, result, chan, display, exited, sample_queue,
          producer_poisoned, stderr, analysis, left_collection,
          right_collection, last_peak, emitted, delta_mode_enabled,
          reference_level, tone_chan, tone, out_data, manager, ui, threads,
          reference_tone>>

----------------------------------------------------------------------------
(* Bounds *)

\* Commands that may wait in the command channel at one time.
MaxChan == 1

\* The largest channel number whose label the resolver is given.
MaxLabel == 64

\* Notifications that may wait unread in the display channel at one time.
MaxDisplay == 1

\* Capacity of the sample queue (RingBuffer::new(RING_BUFFER_SIZE)), scaled
\* down from the 1024 of the source.
RING_BUFFER_SIZE == 2

\* Blocks the analysis thread collects before it computes a reading, scaled
\* down from the 20 of the source.
INPUT_BUFFERS_FOR_PEAK_CALCULATION == 1

----------------------------------------------------------------------------
(* Values *)

None == <<>>
Some(x) == <<x>>
IsSome(o) == o # <<>>
Unwrap(o) == o[1]

\* A channel label is a string, modelled as its sequence of characters.
DigitChars == <<"0", "1", "2", "3", "4", "5", "6", "7", "8", "9">>

DigitValue(c) == (CHOOSE i \in 1..10 : DigitChars[i] = c) - 1

IsDigit(c) == \E i \in 1..10 : DigitChars[i] = c

RECURSIVE to_string(_)
\* usize::to_string: the decimal digits, most significant first.
to_string(n) ==
    IF n < 10 THEN <<DigitChars[n + 1]>>
    ELSE Append(to_string(n \div 10), DigitChars[(n % 10) + 1])

RECURSIVE DigitsValue(_)
DigitsValue(s) ==
    IF s = <<>> THEN 0
    ELSE 10 * DigitsValue(SubSeq(s, 1, Len(s) - 1)) + DigitValue(s[Len(s)])

\* The Display text of the ParseIntError kinds Empty and InvalidDigit.
ParseIntErrorEmpty == "cannot parse integer from empty string"
ParseIntErrorInvalidDigit == "invalid digit found in string"

\* A parser that reads every label it cannot parse as 0.
ParseUsizeLenient(s) ==
    [ok |-> TRUE, value |-> 0, message |-> ""]

\* str::parse::<usize>: an optional leading "+", then one or more digits.
ParseUsize(s) ==
    LET body == IF s # <<>> /\ s[1] = "+" THEN Tail(s) ELSE s
    IN  IF body # <<>> /\ \A i \in 1..Len(body) : IsDigit(body[i])
        THEN [ok |-> TRUE, value |-> DigitsValue(body), message |-> ""]
        ELSE [ok |-> FALSE, value |-> 0,
              message |-> IF s = <<>> THEN ParseIntErrorEmpty
                          ELSE ParseIntErrorInvalidDigit]

\* A subtraction that leaves the number as it is.
KeepNumber(n) == n

\* usize::saturating_sub(1)
SaturatingSub1(n) == IF n >= 1 THEN n - 1 ELSE 0

get_channel_index_from_name(channel) ==
    LET p == ParseUsize(channel)
    IN  [ok |-> p.ok, value |-> IF p.ok THEN SaturatingSub1(p.value) ELSE 0,
         message |-> p.message]

get_channel_indexes_from_channel_names(left_channel, right_channel) ==
    LET l == get_channel_index_from_name(left_channel)
        r == IF IsSome(right_channel)
             THEN get_channel_index_from_name(Unwrap(right_channel))
             ELSE [ok |-> TRUE, value |-> 0, message |-> ""]
    IN  IF ~l.ok
        THEN [ok |-> FALSE, left |-> 0, right |-> None, message |-> l.message]
        ELSE IF ~r.ok
        THEN [ok |-> FALSE, left |-> 0, right |-> None, message |-> r.message]
        ELSE [ok |-> TRUE, left |-> l.value,
              right |-> IF IsSome(right_channel) THEN Some(r.value) ELSE None,
              message |-> ""]

----------------------------------------------------------------------------
(* Samples and levels *)

\* Sample values the host delivers, in tenths of full scale.
Samples == {0, 10}

Abs(x) == IF x < 0 THEN 0 - x ELSE x

\* An f32 level in dB: an infinity, not-a-number, or a finite value kept in
\* hundredths.
NegInfinity == [kind |-> "-inf", hundredths |-> 0]
PosInfinity == [kind |-> "+inf", hundredths |-> 0]
NaN == [kind |-> "NaN", hundredths |-> 0]
Finite(h) == [kind |-> "finite", hundredths |-> h]

\* 20 * log10(k / 10) for k = 1..10, in hundredths of a dB.
DbfsOfTenths ==
    <<0 - 2000, 0 - 1398, 0 - 1046, 0 - 796, 0 - 602, 0 - 444, 0 - 310,
      0 - 194, 0 - 92, 0>>

\* 20 * log10(|sample|): minus infinity for 0, 0 dB for full scale.
get_dbfs_from_sample_value(sample) ==
    IF Abs(sample) = 0 THEN NegInfinity ELSE Finite(DbfsOfTenths[Abs(sample)])

RECURSIVE FoldSigned(_, _)
\* A fold that keeps the largest sample, sign included.
FoldSigned(samples, acc) ==
    IF samples = <<>> THEN acc
    ELSE FoldSigned(Tail(samples),
                    IF Head(samples) > acc THEN Head(samples) ELSE acc)

RECURSIVE FoldPeak(_, _)
\* samples.iter().fold(0.0, |acc, x| x.abs().max(acc))
FoldPeak(samples, acc) ==
    IF samples = <<>> THEN acc
    ELSE FoldPeak(Tail(samples),
                  IF Abs(Head(samples)) > acc THEN Abs(Head(samples)) ELSE acc)

get_peak_of_sine_wave_samples(samples) ==
    get_dbfs_from_sample_value(FoldPeak(samples, 0))

\* level -= reference_level, in f32 arithmetic with a finite reference.
LevelMinus(level, reference) ==
    IF level.kind = "finite" THEN Finite(level.hundredths - reference) ELSE level

\* A rounding that drops the second decimal.
RoundDown(a) == a \div 10

\* The tenths nearest to a non-negative number of hundredths, a tie going to
\* the even digit.
RoundHalfEven(a) ==
    LET q == a \div 10
        r == a % 10
    IN  IF r > 5 \/ (r = 5 /\ q % 2 = 1) THEN q + 1 ELSE q

\* format!("{:.1}", v) for a finite v.
FormatOneDecimal(h) ==
    LET q == RoundHalfEven(Abs(h))
    IN  (IF h < 0 THEN <<"-">> ELSE <<>>)
            \o to_string(q \div 10) \o <<".">> \o to_string(q % 10)

format_peak_delta_values_for_display(level) ==
    IF level.kind # "finite" THEN <<"-">>
    ELSE IF level.hundredths < 0 /\ level.hundredths > 0 - 10
    THEN <<"0", ".", "0">>
    ELSE IF level.hundredths > 10
    THEN <<"+">> \o FormatOneDecimal(level.hundredths)
    ELSE FormatOneDecimal(level.hundredths)

DEFAULT_DELTA_MODE == TRUE

\* default_reference_level handed to LevelMeter::new by its owner, in hundredths
\* of a dB: the reference tone's default level of -18 dB.
DefaultReferenceLevel == 0 - 1800

----------------------------------------------------------------------------
(* The host collaborator *)

\* host.input_devices() / host.output_devices(), in enumeration order, when
\* every device is plugged in.
HostDevices == <<"A", "B", "C">>

\* Devices that may be unplugged and plugged in again while the program runs.
Removable == {"B"}

\* Channels of the device's default stream configuration.
ConfigChannels(d) == IF d = "A" THEN 2 ELSE 1

\* Channels the engine lists for the device.  The ToneGenerator lists those of
\* the default configuration; the LevelMeter lists those of the last supported
\* configuration, which for device C has more channels than the default one.
ListedChannels(d) ==
    IF engine = "LevelMeter" /\ d = "C" THEN 2 ELSE ConfigChannels(d)

get_channel_list_from_device(d) == [i \in 1..ListedChannels(d) |-> to_string(i)]

\* host.default_input_device() / default_output_device(): the first device
\* the host enumerates.
DefaultDevice == CHOOSE d \in present :
    \A i, j \in 1..Len(HostDevices) :
        (HostDevices[i] = d /\ HostDevices[j] \in present) => i <= j

\* get_*_device_list_from_host, taken once in new() with every device present.
device_list ==
    [devices |-> HostDevices,
     channels |-> [i \in 1..Len(HostDevices) |->
                     get_channel_list_from_device(HostDevices[i])]]

\* device_list.iter().position(|n| n == name).unwrap_or(0), zero-based.
IndexOfName(name) ==
    IF \E i \in 1..Len(device_list.devices) : device_list.devices[i] = name
    THEN (CHOOSE i \in 1..Len(device_list.devices) :
              device_list.devices[i] = name) - 1
    ELSE 0

\* CurrentDevice built from a channel list: left is the first label, right the
\* second one when there is one.
DeviceRecord(index, name, channels) ==
    [index |-> index, name |-> name, left_channel |-> channels[1],
     right_channel |-> IF Len(channels) > 1 THEN Some(channels[2]) ELSE None]

get_default_device_data_from_device(d) ==
    DeviceRecord(IndexOfName(d), d, get_channel_list_from_device(d))

\* left_channel_samples and right_channel_samples as build_input_stream's
\* closure captures them: Vec::new().
EmptyBuffers == [left |-> <<>>, right |-> <<>>]

\* A stream as create_*_stream builds it: bound to one device and one channel
\* mapping.  Some hosts start a stream as soon as it is built.  callback is
\* the host thread that runs the stream's callbacks: "alive" until a callback
\* panics.  at is the place of that thread in the data callback: "idle"
\* between two invocations.
NewStream(d, left, right, state) ==
    [device |-> d, left |-> left, right |-> right, state |-> state,
     callback |-> "alive", samples |-> EmptyBuffers, at |-> "idle"]

StreamStates == {"paused", "playing"}

\* A pause that the host reports as done and that leaves the stream running.
PauseWithoutEffect(s) == s

\* A play that stops a stream that is already playing.
PlayToggles(s) ==
    [s EXCEPT !.state = IF s.state = "playing" THEN "paused" ELSE "playing"]

\* Stream::pause and Stream::play, when the host reports success.
Pause(s) == [s EXCEPT !.state = "paused"]
Play(s) == [s EXCEPT !.state = "playing"]

----------------------------------------------------------------------------
(* Commands of the control surface *)

NoArg == [index |-> 0, name |-> "", left |-> <<>>, right |-> None,
          flag |-> FALSE, level |-> 0]
NoIdx == [left |-> 0, right |-> None]
NoResult == [op |-> "none", status |-> "none", cause |-> "none", value |-> None]

Event(type, a) == [type |-> type, arg |-> a]

\* (index, name) pairs the device drop-down offers: the entries of device_list.
DeviceArgs ==
    {[NoArg EXCEPT !.index = i - 1, !.name = device_list.devices[i]] :
        i \in 1..Len(device_list.devices)}

\* Channel selections the control surface may send; "x" is a label no parser
\* accepts.
LeftLabels == {<<"1">>, <<"2">>, <<"x">>}
RightLabels == {None, Some(<<"2">>)}
ChannelArgs ==
    {[NoArg EXCEPT !.left = l, !.right = r] : l \in LeftLabels, r \in RightLabels}

Commands ==
    {Event("Start", NoArg), Event("Stop", NoArg)}
    \cup {Event("MeterDeviceUpdate", a) : a \in DeviceArgs}
    \cup {Event("MeterChannelUpdate", a) : a \in ChannelArgs}

----------------------------------------------------------------------------
(* The tone, the DeviceManager and the UI as they are built *)

\* The sample rate of the output configuration, in kHz: four samples for a
\* cycle of the default frequency.
SampleRate == 4

\* 10^(level / 20) in thousandths, for a level in hundredths of a dB.
get_dbfs_adjustment_factor_from_level(level) ==
    CASE level = 0 - 1800 -> 126
      [] level = 0 - 600 -> 501
      [] level = 0 -> 1000

\* The reference frequency of a new ToneGenerator, in kHz.
DEFAULT_REFERENCE_FREQUENCY == 1

\* reference_tone of ToneGenerator::new: the default frequency and level.
DefaultReferenceTone ==
    [frequency |-> DEFAULT_REFERENCE_FREQUENCY, level |-> DefaultReferenceLevel]

\* What the callback of a stream built by create_output_steam starts from:
\* the frequency of the reference tone it was given, the factor of its level
\* and a Sine at phase 0.
ToneBuiltFrom(given) ==
    [reference_frequency |-> given.frequency,
     dbfs_adjustment_factor |->
        get_dbfs_adjustment_factor_from_level(given.level),
     wave |-> "Sine",
     phase |-> 0]

\* The callback of the stream ToneGenerator::new builds.
ToneAsBuilt == ToneBuiltFrom(DefaultReferenceTone)

\* No output callback has run yet.
NoData == [before |-> <<>>, after |-> <<>>]

\* get_channel_list_from_input_device / _output_device of device_manager.rs:
\* the labels 1..channels of the default configuration.
ManagerChannelList(d) == [i \in 1..ConfigChannels(d) |-> to_string(i)]

\* get_input_device_list_from_host / get_output_device_list_from_host of
\* device_manager.rs: names and channel lists of the devices the host
\* enumerates, in its order.
DeviceListOf(plugged) ==
    LET names == SelectSeq(HostDevices, LAMBDA d : d \in plugged)
    IN  [devices |-> names,
         channels |-> [i \in 1..Len(names) |-> ManagerChannelList(names[i])]]

\* DeviceList::default()
EmptyDeviceList == [devices |-> <<>>, channels |-> <<>>]

\* CurrentDevice::default()
NoCurrentDevice == [name |-> "", left_channel |-> <<>>, right_channel |-> None]

\* CurrentDevice of device_manager.rs and ui.rs for a device and its channel
\* list: left is the first label, right the second one when there is one.
CurrentDeviceOf(name, channels) ==
    [name |-> name, left_channel |-> channels[1],
     right_channel |-> IF Len(channels) > 1 THEN Some(channels[2]) ELSE None]

\* get_default_input_device_data / get_default_output_device_data: the first
\* device of the list.
get_default_device_data(list) ==
    CurrentDeviceOf(list.devices[1], list.channels[1])

\* DeviceManager::new, before run().
ManagerAsBuilt ==
    LET list == DeviceListOf(present)
    IN  [input_devices |-> list,
         output_devices |-> list,
         initial_input_device |-> get_default_device_data(list),
         current_output_device |-> get_default_device_data(list),
         polled |-> None,
         pc |-> "run"]

\* UI::new: empty lists and no current device; with_devices is the UI after
\* initialize_ui_with_device_data was given the DeviceManager's devices.
\* shown holds the names the two device drop-downs of the window offer,
\* callbacks the closure the window runs for each of its two close callbacks
\* (none before create_ui_callbacks).
NoCallbacks == [close_error_dialog |-> "unset",
                close_fatal_error_dialog |-> "unset"]

UIAsBuilt(with_devices) ==
    [input_device_list |-> EmptyDeviceList,
     output_device_list |-> EmptyDeviceList,
     current_input_device |->
        IF with_devices THEN ManagerAsBuilt.initial_input_device
        ELSE NoCurrentDevice,
     current_output_device |->
        IF with_devices THEN ManagerAsBuilt.current_output_device
        ELSE NoCurrentDevice,
     event |-> None,
     shown |-> [input |-> <<>>, output |-> <<>>],
     callbacks |-> NoCallbacks,
     error_dialog_visible |-> FALSE,
     fatal_error_dialog_visible |-> FALSE,
     pc |-> "recv"]

\* Threads that start_level_meter may have spawned at one time.
MaxThreads == 2

\* No call of start_level_meter yet.
NoThreads == [k \in 1..MaxThreads |-> "none"]

----------------------------------------------------------------------------
(* Initial state: the engine as LevelMeter::new / ToneGenerator::new leaves it *)

Engines == {"LevelMeter", "ToneGenerator"}

\* new(): the default device, its first two channels, a stream built and
\* then paused (new() fails when the pause fails).
EngineBuiltWith(t) ==
    /\ engine \in Engines
    /\ present = {HostDevices[i] : i \in 1..Len(HostDevices)}
    /\ device = HostDevices[1]
    /\ current_device = get_default_device_data_from_device(HostDevices[1])
    /\ \E s \in StreamStates :
          stream = Pause(NewStream(HostDevices[1], 0, Some(1), s))
    /\ pending = None
    /\ via = "none"
    /\ idx = NoIdx
    /\ result = NoResult
    /\ chan = <<>>
    /\ display = <<>>
    /\ exited = FALSE
    /\ sample_queue = <<>>
    /\ producer_poisoned = FALSE
    /\ stderr = {}
    /\ analysis = "none"
    /\ left_collection = <<>>
    /\ right_collection = <<>>
    /\ last_peak = [left |-> Finite(0), right |-> Finite(0)]
    /\ emitted = None
    /\ delta_mode_enabled = DEFAULT_DELTA_MODE
    /\ reference_level = DefaultReferenceLevel
    /\ tone_chan = <<>>
    /\ tone = t
    /\ out_data = NoData
    /\ manager = ManagerAsBuilt
    /\ ui = UIAsBuilt(TRUE)
    /\ threads = NoThreads
    /\ reference_tone = DefaultReferenceTone

EngineAsBuilt == EngineBuiltWith(ToneAsBuilt)

\* No handler has been called yet.
Init ==
    /\ EngineAsBuilt
    /\ pc = IF engine = "LevelMeter" THEN "new" ELSE "idle"
    /\ op = "none"
    /\ arg = NoArg
    /\ local = None

----------------------------------------------------------------------------
(* Calls and returns *)

\* First position of each handler.
EntryPc(o) ==
    CASE o = "start"   -> "start"
      [] o = "stop"    -> "stop"
      [] o = "device"  -> "dev_stop"
      [] o = "channel" -> "ch_stop"
      [] o = "reset"   -> "rs_stop"
      [] OTHER         -> "idle"

\* Where the control thread is when no handler runs: inside LevelMeter::run
\* ("idle"), or, for a LevelMeter whose run() has not been called yet, "new".
HomePc == IF engine = "LevelMeter" /\ via = "call" THEN "new" ELSE "idle"

\* The arms of LevelMeter::run unwrap the handler's Result with expect(): an
\* Err panics the control thread.  A direct caller gets the Result back.
AfterReturn(status) ==
    IF via = "run" /\ status # "Ok" THEN "panicked" ELSE HomePc

\* set_*_device_on_ui_callback maps every error of update_current_*_device to
\* DeviceConfiguration; the other handlers return the error as it is.
Mapped(cause) == IF op = "device" THEN "DeviceConfiguration" ELSE cause

Return(status, cause, value) ==
    /\ result' = [op |-> op, status |-> status, cause |-> cause, value |-> value]
    /\ pc' = AfterReturn(status)
    /\ op' = "none"
    /\ via' = "none"
    /\ arg' = NoArg
    /\ idx' = NoIdx
    /\ local' = None

StartError == IF engine = "LevelMeter" THEN "LevelMeterStart" ELSE "ToneGeneratorStart"
StopError == IF engine = "LevelMeter" THEN "LevelMeterStop" ELSE "ToneGeneratorStop"
StreamError == IF engine = "LevelMeter" THEN "InputStream" ELSE "OutputStream"

\* The argument set_*_device is called with: the engine's own current-device
\* record, except in reset_to_default_output_device, which passes the record
\* of the default device.
SdArg ==
    IF op = "reset" /\ engine = "ToneGenerator" THEN Unwrap(local)
    ELSE current_device

----------------------------------------------------------------------------
(* Environment: the host and the control surface *)

HostUnplug ==
    /\ ~exited
    /\ \E d \in Removable \cap present : present' = present \ {d}
    /\ UNCHANGED <<engine, device, current_device, stream, pending, pc, op, via,
                   arg, idx, local, result, chan, display, exited>>
    /\ UNCHANGED audioVars
    /\ UNCHANGED sideVars
HostPlug ==
    /\ ~exited
    /\ \E d \in Removable \ present : present' = present \cup {d}
    /\ UNCHANGED <<engine, device, current_device, stream, pending, pc, op, via,
                   arg, idx, local, result, chan, display, exited>>
    /\ UNCHANGED audioVars
    /\ UNCHANGED sideVars
\* The control surface sends one of the commands cmds to the LevelMeter's
\* channel.
UISendOf(cmds) ==
    /\ ~exited
    /\ engine = "LevelMeter"
    /\ Len(chan) < MaxChan
    /\ \E c \in cmds : chan' = Append(chan, c)
    /\ UNCHANGED <<engine, present, device, current_device, stream, pending, pc,
                   op, via, arg, idx, local, result, display, exited>>
    /\ UNCHANGED audioVars
    /\ UNCHANGED sideVars
UISend == UISendOf(Commands)

----------------------------------------------------------------------------
(* LevelMeter::run *)

\* run() is entered once: it spawns the analysis thread (start_level_meter)
\* and from then on the control thread is in its loop.
Run ==
    /\ ~exited
    /\ engine = "LevelMeter"
    /\ pc = "new"
    /\ pc' = "idle"
    /\ analysis' = "running"
    /\ UNCHANGED <<engine, present, device, current_device, stream, pending, op,
                   via, arg, idx, local, result, chan, display, exited>>
    /\ UNCHANGED <<sample_queue, producer_poisoned, stderr, left_collection,
                   right_collection, last_peak, emitted, delta_mode_enabled,
                   reference_level>>
    /\ UNCHANGED sideVars

\* A loop that would take the next command at any time.
RunLoopAlwaysReady == TRUE

\* The loop calls try_recv only after the previous match arm has returned.
RunLoopReady == pc = "idle"

\* The handler a command is dispatched to; every other event is ignored.
OpOfEvent(type) ==
    CASE type = "Start"              -> "start"
      [] type = "Stop"               -> "stop"
      [] type = "MeterDeviceUpdate"  -> "device"
      [] type = "MeterChannelUpdate" -> "channel"
      [] OTHER                       -> "none"

RunRecv ==
    /\ ~exited
    /\ engine = "LevelMeter"
    /\ RunLoopReady
    /\ chan # <<>>
    /\ LET e == Head(chan)
       IN  /\ chan' = Tail(chan)
           /\ op' = OpOfEvent(e.type)
           /\ arg' = e.arg
           /\ via' = IF OpOfEvent(e.type) = "none" THEN "none" ELSE "run"
           /\ pc' = EntryPc(OpOfEvent(e.type))
           /\ delta_mode_enabled' =
                 IF e.type = "MeterModeUpdate" THEN e.arg.flag
                 ELSE delta_mode_enabled
           /\ reference_level' =
                 IF e.type = "ToneLevelUpdate" THEN e.arg.level
                 ELSE reference_level
    /\ UNCHANGED <<engine, present, device, current_device, stream, pending,
                   idx, local, result, display, exited>>
    /\ UNCHANGED <<sample_queue, producer_poisoned, stderr, analysis,
                   left_collection, right_collection, last_peak, emitted>>
    /\ UNCHANGED sideVars

\* A handler called directly by the owner of the engine.  &mut self makes the
\* calls exclusive; LevelMeter::run never returns, so a LevelMeter is called
\* directly only before run().
CallReady ==
    \/ engine = "ToneGenerator" /\ pc = "idle"
    \/ engine = "LevelMeter" /\ pc = "new"

DirectOps ==
    IF engine = "ToneGenerator"
    THEN {"start", "stop", "device", "channel", "reset"}
    ELSE {"reset"}

ArgsOf(o) ==
    CASE o = "device"  -> DeviceArgs
      [] o = "channel" -> ChannelArgs
      [] OTHER         -> {NoArg}

\* The owner calls one of the handlers ops.
CallDirect(ops) ==
    /\ ~exited
    /\ CallReady
    /\ \E o \in ops : \E a \in ArgsOf(o) :
          /\ op' = o
          /\ arg' = a
          /\ via' = "call"
          /\ pc' = EntryPc(o)
    /\ UNCHANGED <<engine, present, device, current_device, stream, pending,
                   idx, local, result, chan, display, exited>>
    /\ UNCHANGED audioVars
    /\ UNCHANGED sideVars
CallOf(ops) == CallDirect(DirectOps \cap ops)

Call == CallOf(DirectOps)

----------------------------------------------------------------------------
(* start() and stop() *)

\* self.stream.play(): on success the stream plays; on failure start()
\* returns the error and has changed nothing.
start ==
    /\ ~exited
    /\ pc = "start"
    /\ \E ok \in BOOLEAN :
          IF ok
          THEN /\ stream' = Play(stream)
               /\ Return("Ok", "none", None)
          ELSE /\ UNCHANGED stream
               /\ Return(StartError, StartError, None)
    /\ UNCHANGED <<engine, present, device, current_device, pending, chan,
                   display, exited>>
    /\ UNCHANGED audioVars
    /\ UNCHANGED sideVars
\* self.stream.pause(), as called by stop(); to is where the caller goes on
\* when stop() returned Ok.
StopThen(from, to) ==
    /\ ~exited
    /\ pc = from
    /\ \E ok \in BOOLEAN :
          IF ok
          THEN /\ stream' = Pause(stream)
               /\ IF to = "return"
                  THEN Return("Ok", "none", None)
                  ELSE /\ pc' = to
                       /\ UNCHANGED <<op, via, arg, idx, local, result>>
          ELSE /\ UNCHANGED stream
               /\ Return(StopError, StopError, None)
    /\ UNCHANGED <<engine, present, device, current_device, pending, chan,
                   display, exited>>
    /\ UNCHANGED audioVars
    /\ UNCHANGED sideVars
stop == StopThen("stop", "return")

----------------------------------------------------------------------------
(* set_*_device_on_ui_callback, update_current_*_device, set_*_device *)

\* self.stop()? is the first statement of set_*_device_on_ui_callback.
set_device_on_ui_callback == StopThen("dev_stop", "uc_update")

\* A record that takes the new index and name and keeps the labels selected
\* on the previous device.
StaleRecord(index, name) ==
    [current_device EXCEPT !.index = index, !.name = name]

\* The record update_current_*_device builds: the entry of device_list at the
\* given index supplies the labels.
RederivedRecord(index, name) ==
    DeviceRecord(index, name, device_list.channels[index + 1])

\* update_current_*_device up to its call of set_*_device: look the device up
\* by name on the host, then take the channel labels of device_list at the
\* given index.
update_current_device ==
    /\ ~exited
    /\ pc = "uc_update"
    /\ IF arg.name \in present
       THEN /\ device' = arg.name
            /\ current_device' = RederivedRecord(arg.index, arg.name)
            /\ pc' = "sd_set"
            /\ UNCHANGED <<op, via, arg, idx, local, result>>
       ELSE /\ Return(Mapped("DeviceNotFound"), "DeviceNotFound", None)
            /\ UNCHANGED <<device, current_device>>
    /\ UNCHANGED <<engine, present, stream, pending, chan, display, exited>>
    /\ UNCHANGED audioVars
    /\ UNCHANGED sideVars
\* set_*_device up to the stream build: the device is looked up again, the
\* record stored and the channel labels resolved.
set_device ==
    /\ ~exited
    /\ pc = "sd_set"
    /\ LET d == SdArg
           r == get_channel_indexes_from_channel_names(d.left_channel,
                                                       d.right_channel)
       IN  IF d.name \notin present
           THEN /\ Return(Mapped("DeviceNotFound"), "DeviceNotFound", None)
                /\ UNCHANGED <<device, current_device>>
           ELSE /\ device' = d.name
                /\ current_device' = d
                /\ IF r.ok
                   THEN /\ idx' = [left |-> r.left, right |-> r.right]
                        /\ pc' = "sd_create"
                        /\ UNCHANGED <<op, via, arg, local, result>>
                   ELSE Return(Mapped("ChannelIndex"), "ChannelIndex", None)
    /\ UNCHANGED <<engine, present, stream, pending, chan, display, exited>>
    /\ UNCHANGED audioVars
    /\ UNCHANGED sideVars
\* create_input_stream / create_output_steam: the device's default
\* configuration is read and a stream is built for self.device and the
\* resolved indexes.  The old stream is still held by the engine.
CreateThen(from, to) ==
    /\ ~exited
    /\ pc = from
    /\ \E ok \in BOOLEAN : \E s \in StreamStates :
          IF ok /\ device \in present
          THEN /\ pending' = Some(NewStream(device, idx.left, idx.right, s))
               /\ pc' = to
               /\ UNCHANGED <<op, via, arg, idx, local, result>>
          ELSE /\ UNCHANGED pending
               /\ Return(Mapped(StreamError), StreamError, None)
    /\ UNCHANGED <<engine, present, device, current_device, stream, chan,
                   display, exited>>
    /\ UNCHANGED audioVars
    /\ UNCHANGED sideVars

\* The callback of the rebuilt output stream: create_output_steam is handed
\* &self.reference_tone and starts its locals from it.
ToneRebuilt(kept, given) == ToneBuiltFrom(given)

\* self.stream = <the new stream>: the assignment drops the old stream, and
\* with it what its callback kept.
AssignThen(from, to) ==
    /\ ~exited
    /\ pc = from
    /\ stream' = Unwrap(pending)
    /\ pending' = None
    /\ pc' = to
    /\ tone' = IF engine = "ToneGenerator"
               THEN ToneRebuilt(tone, reference_tone)
               ELSE tone
    /\ UNCHANGED <<engine, present, device, current_device, op, via, arg, idx,
                   local, result, chan, display, exited>>
    /\ UNCHANGED audioVars
    /\ UNCHANGED <<tone_chan, out_data, manager, ui, threads, reference_tone>>
\* A rebuild that leaves the new stream as the host built it.
LeftAsBuilt(s) == s

\* What pause() does to the stream just built.
PauseNew(s) == Pause(s)

\* self.stream.pause() after the build; to is where the handler goes on.
PauseThen(from, to) ==
    /\ ~exited
    /\ pc = from
    /\ \E ok \in BOOLEAN :
          IF ok
          THEN /\ stream' = PauseNew(stream)
               /\ IF to = "return"
                  THEN Return("Ok", "none", local)
                  ELSE /\ pc' = to
                       /\ UNCHANGED <<op, via, arg, idx, local, result>>
          ELSE /\ UNCHANGED stream
               /\ Return(Mapped(StreamError), StreamError, None)
    /\ UNCHANGED <<engine, present, device, current_device, pending, chan,
                   display, exited>>
    /\ UNCHANGED audioVars
    /\ UNCHANGED sideVars
set_device_create == CreateThen("sd_create", "sd_assign")
set_device_assign == AssignThen("sd_assign", "sd_pause")

\* set_*_device returns to its caller: set_output_channel_on_ui_callback goes
\* on to resolve the labels and rebuild once more, every other caller returns.
set_device_pause ==
    PauseThen("sd_pause", IF op = "channel" THEN "ch_parse" ELSE "return")

----------------------------------------------------------------------------
(* set_*_channel_on_ui_callback *)

set_channel_on_ui_callback == StopThen("ch_stop", "ch_record")

\* The new labels are stored in the current-device record.  The ToneGenerator
\* then calls set_output_device; the LevelMeter resolves the labels at once.
set_channel_record ==
    /\ ~exited
    /\ pc = "ch_record"
    /\ current_device' = [current_device EXCEPT !.left_channel = arg.left,
                                                 !.right_channel = arg.right]
    /\ pc' = IF engine = "ToneGenerator" THEN "sd_set" ELSE "ch_parse"
    /\ UNCHANGED <<engine, present, device, stream, pending, op, via, arg, idx,
                   local, result, chan, display, exited>>
    /\ UNCHANGED audioVars
    /\ UNCHANGED sideVars
set_channel_parse ==
    /\ ~exited
    /\ pc = "ch_parse"
    /\ LET r == get_channel_indexes_from_channel_names(
                    current_device.left_channel, current_device.right_channel)
       IN  IF r.ok
           THEN /\ idx' = [left |-> r.left, right |-> r.right]
                /\ pc' = "ch_create"
                /\ UNCHANGED <<op, via, arg, local, result>>
           ELSE Return("ChannelIndex", "ChannelIndex", None)
    /\ UNCHANGED <<engine, present, device, current_device, stream, pending,
                   chan, display, exited>>
    /\ UNCHANGED audioVars
    /\ UNCHANGED sideVars
set_channel_create == CreateThen("ch_create", "ch_assign")
set_channel_assign == AssignThen("ch_assign", "ch_pause")
set_channel_pause == PauseThen("ch_pause", "return")

----------------------------------------------------------------------------
(* reset_to_default_*_device *)

reset_to_default_device == StopThen("rs_stop", "rs_default")

\* The host's default device and its record; then set_*_device is called.
reset_default_data ==
    /\ ~exited
    /\ pc = "rs_default"
    /\ local' = Some(get_default_device_data_from_device(DefaultDevice))
    /\ pc' = "sd_set"
    /\ UNCHANGED <<engine, present, device, current_device, stream, pending, op,
                   via, arg, idx, result, chan, display, exited>>
    /\ UNCHANGED audioVars
    /\ UNCHANGED sideVars
----------------------------------------------------------------------------
(* The input stream's data callback *)

\* data.chunks_exact(n): the complete frames of an interleaved buffer.
chunks_exact(data, n) ==
    [k \in 1..(Len(data) \div n) |-> SubSeq(data, (k - 1) * n + 1, k * n)]

\* The channel counts of the host's devices.
ChannelCounts == {ConfigChannels(HostDevices[i]) : i \in 1..Len(HostDevices)}

\* For each channel count, the buffers of one frame in which every channel
\* carries the same sample.
UniformData == [n \in ChannelCounts |-> {[i \in 1..n |-> x] : x \in Samples}]

\* For each channel count, the buffer of one frame of silence.
SilentData == [n \in ChannelCounts |-> {[i \in 1..n |-> 0]}]

\* frame[left_channel_index] or frame[index] is out of bounds.
IndexOutOfBounds(s, frames, n) ==
    /\ frames # <<>>
    /\ \/ s.left >= n
       \/ IsSome(s.right) /\ Unwrap(s.right) >= n

\* The block the callback builds from the frames of one buffer.
SampleFrameBuffer(s, frames) ==
    [left |-> [k \in 1..Len(frames) |-> frames[k][s.left + 1]],
     right |-> IF IsSome(s.right)
               THEN [k \in 1..Len(frames) |-> frames[k][Unwrap(s.right) + 1]]
               ELSE <<>>]

\* The closure's buffers after the frames of one buffer were pushed onto them.
PushFrames(samples, s, frames) ==
    [left |-> samples.left \o SampleFrameBuffer(s, frames).left,
     right |-> samples.right \o SampleFrameBuffer(s, frames).right]

\* Buffers that are cleared only when the block was pushed.
ClearedOnPush(filled, pushed) == IF pushed THEN EmptyBuffers ELSE filled

\* left_channel_samples.clear(); right_channel_samples.clear(): after the
\* push, whatever its result.
ClearedBuffers(filled, pushed) == EmptyBuffers

\* A queue without a capacity.
RingAlwaysHasRoom(queue) == TRUE

\* Producer::push fails with PushError::Full when the queue holds
\* RING_BUFFER_SIZE blocks.
RingHasRoom(queue) == Len(queue) < RING_BUFFER_SIZE

\* sample_producer.push(block) when the queue has room.
RingPush(queue, block) == Append(queue, block)

\* The streams the engine has open: the one it holds and, during a rebuild,
\* the one just built.
OpenStreams ==
    [held |-> Some(stream), pending |-> pending]

SlotStream(slot) == Unwrap(OpenStreams[slot])

\* The new value of the stream in slot is s; the other slot keeps its stream.
SetSlot(slot, s) ==
    IF slot = "held"
    THEN stream' = s /\ UNCHANGED pending
    ELSE pending' = Some(s) /\ UNCHANGED stream

\* A panic of a callback ends the host thread that runs the stream's callbacks.
CallbackPanics(slot) ==
    SetSlot(slot, [SlotStream(slot) EXCEPT !.callback = "dead"])

\* The host calls the data callback of a playing input stream with one of
\* the buffers dataOf[channels].  eprintln! panics when standard error cannot
\* be written.  A panic unwinds the host's thread, which drops the closure
\* and its buffers with it.
InputCallbackOn(slot, dataOf) ==
    /\ ~exited
    /\ engine = "LevelMeter"
    /\ IsSome(OpenStreams[slot])
    /\ LET s == SlotStream(slot)
           n == ConfigChannels(s.device)
       IN  /\ s.state = "playing"
           /\ s.callback = "alive"
           /\ \E data \in dataOf[n] : \E stderr_ok \in BOOLEAN :
                LET frames == chunks_exact(data, n)
                    block == PushFrames(s.samples, s, frames)
                    cleared(pushed) ==
                       [s EXCEPT !.samples = ClearedBuffers(block, pushed)]
                IN  IF IndexOutOfBounds(s, frames, n)
                    THEN /\ CallbackPanics(slot)
                         /\ UNCHANGED <<sample_queue, producer_poisoned,
                                        stderr, exited>>
                    ELSE IF producer_poisoned
                    THEN IF stderr_ok
                         THEN /\ stderr' = stderr \cup {"poisoned lock"}
                              /\ exited' = TRUE
                              /\ UNCHANGED <<sample_queue, producer_poisoned,
                                             stream, pending>>
                         ELSE /\ CallbackPanics(slot)
                              /\ UNCHANGED <<sample_queue, producer_poisoned,
                                             stderr, exited>>
                    ELSE IF RingHasRoom(sample_queue)
                    THEN /\ sample_queue' = RingPush(sample_queue, block)
                         /\ SetSlot(slot, cleared(TRUE))
                         /\ UNCHANGED <<producer_poisoned, stderr, exited>>
                    ELSE IF stderr_ok
                         THEN /\ stderr' = stderr \cup {"full ring buffer"}
                              /\ SetSlot(slot, cleared(FALSE))
                              /\ UNCHANGED <<sample_queue, producer_poisoned,
                                             exited>>
                         ELSE /\ CallbackPanics(slot)
                              /\ producer_poisoned' = TRUE
                              /\ UNCHANGED <<sample_queue, stderr, exited>>
    /\ UNCHANGED <<engine, present, device, current_device, pc, op, via, arg,
                   idx, local, result, chan, display>>
    /\ UNCHANGED <<analysis, left_collection, right_collection, last_peak,
                   emitted, delta_mode_enabled, reference_level>>
    /\ UNCHANGED sideVars

\* The host reports a stream error to the error callback of an open stream.
\* The LevelMeter's callback prints the error; the ToneGenerator's prints it
\* and exits.
StreamErrorCallback(slot) ==
    /\ ~exited
    /\ IsSome(OpenStreams[slot])
    /\ SlotStream(slot).callback = "alive"
    /\ \E stderr_ok \in BOOLEAN :
          IF stderr_ok
          THEN /\ stderr' = stderr \cup {"stream error"}
               /\ exited' = (engine = "ToneGenerator")
               /\ UNCHANGED <<stream, pending>>
          ELSE /\ CallbackPanics(slot)
               /\ UNCHANGED <<stderr, exited>>
    /\ UNCHANGED <<engine, present, device, current_device, pc, op, via, arg,
                   idx, local, result, chan, display>>
    /\ UNCHANGED <<sample_queue, producer_poisoned, analysis, left_collection,
                   right_collection, last_peak, emitted, delta_mode_enabled,
                   reference_level>>
    /\ UNCHANGED sideVars

----------------------------------------------------------------------------
(* The analysis thread of start_level_meter *)

RECURSIVE Flatten(_)
Flatten(buffers) ==
    IF buffers = <<>> THEN <<>> ELSE Head(buffers) \o Flatten(Tail(buffers))

\* A reading that is the measured peak whatever the mode.
PeakAsMeasured(peak) == peak

\* if delta_mode_enabled { left -= reference_level; right -= reference_level }
DeltaAdjusted(peak) ==
    IF delta_mode_enabled THEN LevelMinus(peak, reference_level) ELSE peak

\* The text sent for a peak.
Reading(peak) == format_peak_delta_values_for_display(DeltaAdjusted(peak))

MeterLevelUpdate(left, right) ==
    Event("MeterLevelUpdate", [NoArg EXCEPT !.left = left, !.right = right])

\* A loop that is left after the turn.
LoopBreaks == "stopped"

\* `loop { ... }` has no break and no return: after a turn comes the next.
LoopAgain == "running"

\* A window that keeps its newest block for the next one.
TruncatedToOne(collection) == SubSeq(collection, 1, 1)

\* left_input_buffer_collection.truncate(0) and the same for the right one,
\* once the collection was flattened.
Truncated(collection) == <<>>

\* One turn of the loop in which pop() returns a block.
analysis_pop ==
    /\ ~exited
    /\ analysis = "running"
    /\ sample_queue # <<>>
    /\ LET sample_buffers == Head(sample_queue)
           full == Len(left_collection) > INPUT_BUFFERS_FOR_PEAK_CALCULATION
           left == get_peak_of_sine_wave_samples(Flatten(left_collection))
           right == get_peak_of_sine_wave_samples(Flatten(right_collection))
           changed == last_peak.left # left \/ last_peak.right # right
       IN  /\ sample_queue' = Tail(sample_queue)
           /\ IF full /\ changed
              THEN /\ Len(display) < MaxDisplay
                   /\ last_peak' = [left |-> left, right |-> right]
                   /\ emitted' = Some([left |-> DeltaAdjusted(left),
                                        right |-> DeltaAdjusted(right),
                                        delta_mode_enabled |-> delta_mode_enabled,
                                        reference_level |-> reference_level])
                   /\ display' = Append(display,
                                   MeterLevelUpdate(Reading(left), Reading(right)))
              ELSE UNCHANGED <<last_peak, emitted, display>>
           /\ left_collection' =
                 <<sample_buffers.left>>
                     \o (IF full THEN Truncated(left_collection)
                         ELSE left_collection)
           /\ right_collection' =
                 <<sample_buffers.right>>
                     \o (IF full THEN Truncated(right_collection)
                         ELSE right_collection)
    /\ UNCHANGED <<engine, present, device, current_device, stream, pending, pc,
                   op, via, arg, idx, local, result, chan, exited>>
    /\ analysis' = LoopAgain
    /\ UNCHANGED <<producer_poisoned, stderr, delta_mode_enabled,
                   reference_level>>
    /\ UNCHANGED sideVars

\* The display collaborator takes the next notification (UI::run).
DisplayRecv ==
    /\ ~exited
    /\ display # <<>>
    /\ display' = Tail(display)
    /\ UNCHANGED <<engine, present, device, current_device, stream, pending, pc,
                   op, via, arg, idx, local, result, chan, exited>>
    /\ UNCHANGED audioVars
    /\ UNCHANGED sideVars
----------------------------------------------------------------------------
(* The control path of one engine *)

Handlers ==
    \/ start
    \/ stop
    \/ set_device_on_ui_callback
    \/ update_current_device
    \/ set_device
    \/ set_device_create
    \/ set_device_assign
    \/ set_device_pause
    \/ set_channel_on_ui_callback
    \/ set_channel_record
    \/ set_channel_parse
    \/ set_channel_create
    \/ set_channel_assign
    \/ set_channel_pause
    \/ reset_to_default_device
    \/ reset_default_data

Next ==
    \/ HostUnplug
    \/ HostPlug
    \/ UISend
    \/ Run
    \/ RunRecv
    \/ Call
    \/ Handlers

Spec == Init /\ [][Next]_vars

----------------------------------------------------------------------------
(* The running LevelMeter: control loop, input callback, analysis thread *)

\* The commands of this specification: the stream is started and stopped and
\* never rebuilt.
AudioCommands == {Event("Start", NoArg), Event("Stop", NoArg)}

InitAudio == Init /\ engine = "LevelMeter"

UISendAudio == UISendOf(AudioCommands)

InputCallback == InputCallbackOn("held", UniformData)

NextAudio ==
    \/ Run
    \/ UISendAudio
    \/ RunRecv
    \/ start
    \/ stop
    \/ InputCallback
    \/ analysis_pop
    \/ DisplayRecv

SpecAudio == InitAudio /\ [][NextAudio]_vars


----------------------------------------------------------------------------
(* The meter with its mode and reference level under change *)

\* Reference levels the control surface may send, in hundredths of a dB.
MeterLevels == {DefaultReferenceLevel, 0 - 600}

MeterCommands ==
    {Event("MeterModeUpdate", [NoArg EXCEPT !.flag = f]) : f \in BOOLEAN}
    \cup {Event("ToneLevelUpdate", [NoArg EXCEPT !.level = l]) : l \in MeterLevels}

\* The meter after run() was entered and a Start command was served: the
\* analysis thread runs and the stream plays.
InitMeter ==
    /\ engine = "LevelMeter"
    /\ present = {HostDevices[i] : i \in 1..Len(HostDevices)}
    /\ device = DefaultDevice
    /\ current_device = get_default_device_data_from_device(DefaultDevice)
    /\ stream = Play(NewStream(DefaultDevice, 0, Some(1), "paused"))
    /\ pending = None
    /\ pc = "idle"
    /\ op = "none"
    /\ via = "none"
    /\ arg = NoArg
    /\ idx = NoIdx
    /\ local = None
    /\ result = NoResult
    /\ chan = <<>>
    /\ display = <<>>
    /\ exited = FALSE
    /\ sample_queue = <<>>
    /\ producer_poisoned = FALSE
    /\ stderr = {}
    /\ analysis = "running"
    /\ left_collection = <<>>
    /\ right_collection = <<>>
    /\ last_peak = [left |-> Finite(0), right |-> Finite(0)]
    /\ emitted = None
    /\ delta_mode_enabled = DEFAULT_DELTA_MODE
    /\ reference_level = DefaultReferenceLevel
    /\ tone_chan = <<>>
    /\ tone = ToneAsBuilt
    /\ out_data = NoData
    /\ manager = ManagerAsBuilt
    /\ ui = UIAsBuilt(TRUE)
    /\ threads = NoThreads
    /\ reference_tone = DefaultReferenceTone

UISendMeter == UISendOf(MeterCommands)

\* The data callback in the runs where the analysis thread keeps up with the
\* host: the ring buffer has room for the block.
InputCallbackWithRoom ==
    /\ RingHasRoom(sample_queue)
    /\ InputCallback

NextMeter ==
    \/ UISendMeter
    \/ RunRecv
    \/ InputCallbackWithRoom
    \/ analysis_pop
    \/ DisplayRecv

SpecMeter == InitMeter /\ [][NextMeter]_vars

\* The control thread and the analysis thread loop without waiting, the host
\* keeps calling the data callback of a playing stream, and the display
\* collaborator keeps reading its channel.
SpecMeterLive ==
    /\ SpecMeter
    /\ WF_vars(RunRecv)
    /\ WF_vars(InputCallbackWithRoom)
    /\ WF_vars(analysis_pop)
    /\ WF_vars(DisplayRecv)

----------------------------------------------------------------------------
(* Faults: standard error that cannot be written, stream errors, and a      *)
(* channel change of the LevelMeter while the analysis thread takes no step *)

FaultCommands ==
    {Event("Start", NoArg),
     Event("MeterChannelUpdate",
           [NoArg EXCEPT !.left = <<"1">>, !.right = Some(<<"2">>)])}

UISendFault == UISendOf(FaultCommands)

CallFault == CallOf({"start"})

InputCallbackFault ==
    \E slot \in {"held", "pending"} : InputCallbackOn(slot, SilentData)

StreamError_callback ==
    \E slot \in {"held", "pending"} : StreamErrorCallback(slot)

NextFault ==
    \/ Run
    \/ UISendFault
    \/ RunRecv
    \/ CallFault
    \/ start
    \/ set_channel_on_ui_callback
    \/ set_channel_record
    \/ set_channel_parse
    \/ set_channel_create
    \/ set_channel_assign
    \/ set_channel_pause
    \/ InputCallbackFault
    \/ StreamError_callback

SpecFault == Init /\ [][NextFault]_vars

----------------------------------------------------------------------------
(* The analysis thread under the commands of the control surface *)

\* The commands the claim about the thread names.
ThreadCommands ==
    {Event("Stop", NoArg), Event("Exit", NoArg),
     Event("MeterChannelUpdate",
           [NoArg EXCEPT !.left = <<"1">>, !.right = None])}

UISendThread == UISendOf(ThreadCommands)

\* The data callback of the held stream in the runs where the analysis thread
\* keeps up with the host: the queue has room for the block.
InputCallbackSilent ==
    /\ RingHasRoom(sample_queue)
    /\ InputCallbackOn("held", SilentData)

NextThread ==
    \/ UISendThread
    \/ RunRecv
    \/ stop
    \/ set_channel_on_ui_callback
    \/ set_channel_record
    \/ set_channel_parse
    \/ set_channel_create
    \/ set_channel_assign
    \/ set_channel_pause
    \/ InputCallbackSilent
    \/ analysis_pop
    \/ DisplayRecv

\* From the meter that runs and plays.
SpecThread == InitMeter /\ [][NextThread]_vars

\* The analysis thread loops without waiting and the display collaborator
\* keeps reading its channel.
SpecThreadLive ==
    /\ SpecThread
    /\ WF_vars(analysis_pop)
    /\ WF_vars(DisplayRecv)

----------------------------------------------------------------------------
(* The DeviceManager and the UI loop *)

\* Events a channel to an engine may hold beyond MaxChan: the engines' ends of
\* the channels are not part of this specification, so a channel is the log
\* of what was sent.
ChannelLog == 2

HasRoomFor(channel, n) == Len(channel) + n <= MaxChan + ChannelLog

\* Any device may be unplugged, the last one included, and plugged in again.
DevicesUnplug ==
    /\ \E d \in present : present' = present \ {d}
    /\ UNCHANGED <<engine, device, current_device, stream, pending, pc, op, via,
                   arg, idx, local, result, chan, display, exited>>
    /\ UNCHANGED audioVars
    /\ UNCHANGED sideVars

DevicesPlug ==
    /\ \E i \in 1..Len(HostDevices) :
          /\ HostDevices[i] \notin present
          /\ present' = present \cup {HostDevices[i]}
    /\ UNCHANGED <<engine, device, current_device, stream, pending, pc, op, via,
                   arg, idx, local, result, chan, display, exited>>
    /\ UNCHANGED audioVars
    /\ UNCHANGED sideVars

DeviceUpdate(type, current) ==
    Event(type, [NoArg EXCEPT !.name = current.name,
                              !.left = current.left_channel,
                              !.right = current.right_channel])

\* DeviceManager::run before its loop: the initial input device goes to the
\* LevelMeter.
ManagerRun ==
    /\ manager.pc = "run"
    /\ HasRoomFor(chan, 1)
    /\ chan' = Append(chan, DeviceUpdate("MeterDeviceUpdate",
                                         manager.initial_input_device))
    /\ manager' = [manager EXCEPT !.pc = "poll"]
    /\ UNCHANGED <<engine, present, device, current_device, stream, pending, pc,
                   op, via, arg, idx, local, result, display, exited>>
    /\ UNCHANGED audioVars
    /\ UNCHANGED <<tone_chan, tone, out_data, ui, threads, reference_tone>>

\* The head of the loop: both lists are enumerated; run() returns the error
\* when the host fails to enumerate.
ManagerPoll ==
    /\ manager.pc = "poll"
    /\ \E ok \in BOOLEAN :
          manager' =
             IF ok
             THEN [manager EXCEPT
                      !.polled = Some([input_devices |-> DeviceListOf(present),
                                       output_devices |-> DeviceListOf(present)]),
                      !.pc = "input"]
             ELSE [manager EXCEPT !.pc = "returned"]
    /\ UNCHANGED <<engine, present, device, current_device, stream, pending, pc,
                   op, via, arg, idx, local, result, chan, display, exited>>
    /\ UNCHANGED audioVars
    /\ UNCHANGED <<tone_chan, tone, out_data, ui, threads, reference_tone>>

\* A comparison that finds every poll changed.
AlwaysDiffers(polled, snapshot) == TRUE

\* input_devices != self.input_devices: DeviceList derives PartialEq.
ListDiffers(polled, snapshot) == polled # snapshot

\* if input_devices != self.input_devices { store; send to the UI; send to the
\* LevelMeter }
ManagerInput ==
    /\ manager.pc = "input"
    /\ LET polled == Unwrap(manager.polled).input_devices
       IN  IF ListDiffers(polled, manager.input_devices)
           THEN /\ HasRoomFor(chan, 1)
                /\ Len(display) < MaxDisplay
                /\ manager' = [manager EXCEPT !.input_devices = polled,
                                              !.pc = "output"]
                /\ display' = Append(display,
                                     Event("InputDeviceListUpdate", polled))
                /\ chan' = Append(chan, Event("InputDeviceListUpdate", polled))
           ELSE /\ manager' = [manager EXCEPT !.pc = "output"]
                /\ UNCHANGED <<display, chan>>
    /\ UNCHANGED <<engine, present, device, current_device, stream, pending, pc,
                   op, via, arg, idx, local, result, exited>>
    /\ UNCHANGED audioVars
    /\ UNCHANGED <<tone_chan, tone, out_data, ui, threads, reference_tone>>

\* if output_devices != self.output_devices { store; send to the UI; send to
\* the ToneGenerator }, then the sleep that ends the turn.
ManagerOutput ==
    /\ manager.pc = "output"
    /\ LET polled == Unwrap(manager.polled).output_devices
       IN  IF ListDiffers(polled, manager.output_devices)
           THEN /\ HasRoomFor(tone_chan, 1)
                /\ Len(display) < MaxDisplay
                /\ manager' = [manager EXCEPT !.output_devices = polled,
                                              !.polled = None,
                                              !.pc = "poll"]
                /\ display' = Append(display,
                                     Event("OutputDeviceListUpdate", polled))
                /\ tone_chan' = Append(tone_chan,
                                       Event("OutputDeviceListUpdate", polled))
           ELSE /\ manager' = [manager EXCEPT !.polled = None, !.pc = "poll"]
                /\ UNCHANGED <<display, tone_chan>>
    /\ UNCHANGED <<engine, present, device, current_device, stream, pending, pc,
                   op, via, arg, idx, local, result, chan, exited>>
    /\ UNCHANGED audioVars
    /\ UNCHANGED <<tone, out_data, ui, threads, reference_tone>>

Contains(list, name) == \E i \in 1..Len(list.devices) : list.devices[i] = name

\* UI::update_current_input_device / update_current_output_device: the
\* device's channel list is looked up by name (the first one when the name is
\* missing); left is its first label, right its second one when it has one.
UpdatedCurrentDevice(list, name) ==
    LET index == IF Contains(list, name)
                 THEN CHOOSE i \in 1..Len(list.devices) :
                         /\ list.devices[i] = name
                         /\ \A j \in 1..(i - 1) : list.devices[j] # name
                 ELSE 1
    IN  CurrentDeviceOf(name, list.channels[index])

\* The device the UI falls back to: the first of the list.
FallbackDevice(list, current) == UpdatedCurrentDevice(list, list.devices[1])

\* The InputDeviceListUpdate / OutputDeviceListUpdate arm of UI::run for the
\* direction dir.  The index devices[0] panics on an empty list, after
\* send_stop_all has sent Stop to both engines.
UIDeviceListUpdate(dir, list) ==
    LET current == IF dir = "input" THEN ui.current_input_device
                   ELSE ui.current_output_device
        stored == IF dir = "input"
                  THEN [ui EXCEPT !.input_device_list = list]
                  ELSE [ui EXCEPT !.output_device_list = list]
        fallback == FallbackDevice(list, current)
        changed == IF dir = "input"
                   THEN [stored EXCEPT !.current_input_device = fallback]
                   ELSE [stored EXCEPT !.current_output_device = fallback]
    IN  IF Contains(list, current.name)
        THEN /\ ui' = stored
             /\ UNCHANGED <<chan, tone_chan>>
        ELSE IF list.devices = <<>>
        THEN /\ HasRoomFor(chan, 1) /\ HasRoomFor(tone_chan, 1)
             /\ chan' = Append(chan, Event("Stop", NoArg))
             /\ tone_chan' = Append(tone_chan, Event("Stop", NoArg))
             /\ ui' = [stored EXCEPT !.pc = "panicked"]
        ELSE /\ HasRoomFor(chan, 2) /\ HasRoomFor(tone_chan, 2)
             /\ ui' = changed
             /\ IF dir = "input"
                THEN /\ chan' = chan \o <<Event("Stop", NoArg),
                                          DeviceUpdate("MeterDeviceUpdate",
                                                       fallback)>>
                     /\ tone_chan' = Append(tone_chan, Event("Stop", NoArg))
                ELSE /\ chan' = Append(chan, Event("Stop", NoArg))
                     /\ tone_chan' = tone_chan \o
                                        <<Event("Stop", NoArg),
                                          DeviceUpdate("ToneDeviceUpdate",
                                                       fallback)>>

\* get_current_device_index_from_device_list, as UI::run sees its result
\* through the two `?`: DeviceNameNotPresent for a name the list lacks makes
\* run() return the error.
IndexOrReturn(list, name) ==
    IF Contains(list, name) THEN "recv" ELSE "returned"

\* The InputDeviceUpdate / OutputDeviceUpdate arm of UI::run for the direction
\* dir: update_current_*_device stores the name, takes the channels of the
\* named device (of the first one when the list lacks the name; channels[0]
\* panics on an empty list) and calls update_*_device_display_data, which
\* looks the name up once more.  The engine is sent the device only after the
\* `?`.
UIDeviceUpdate(dir, name) ==
    LET list == IF dir = "input" THEN ui.input_device_list
                ELSE ui.output_device_list
        current == IF dir = "input" THEN ui.current_input_device
                   ELSE ui.current_output_device
        set(record) == IF dir = "input"
                       THEN [ui EXCEPT !.current_input_device = record]
                       ELSE [ui EXCEPT !.current_output_device = record]
        updated == UpdatedCurrentDevice(list, name)
        after == IndexOrReturn(list, name)
    IN  IF list.devices = <<>>
        THEN /\ ui' = [set([current EXCEPT !.name = name]) EXCEPT
                          !.pc = "panicked"]
             /\ UNCHANGED <<chan, tone_chan>>
        ELSE /\ ui' = [set(updated) EXCEPT !.pc = after]
             /\ IF after # "recv"
                THEN UNCHANGED <<chan, tone_chan>>
                ELSE IF dir = "input"
                THEN /\ HasRoomFor(chan, 1)
                     /\ chan' = Append(chan, DeviceUpdate("MeterDeviceUpdate",
                                                          updated))
                     /\ UNCHANGED tone_chan
                ELSE /\ HasRoomFor(tone_chan, 1)
                     /\ tone_chan' = Append(tone_chan,
                                            DeviceUpdate("ToneDeviceUpdate",
                                                         updated))
                     /\ UNCHANGED chan

\* handle_error_in_ui / handle_fatal_error_in_ui: the closure handed to the
\* window's event loop shows the dialog.
handle_error_in_ui == [ui EXCEPT !.error_dialog_visible = TRUE]

handle_fatal_error_in_ui == [ui EXCEPT !.fatal_error_dialog_visible = TRUE]

\* One turn of UI::run: recv() and the arm of the event.
UIRecv ==
    /\ ui.pc = "recv"
    /\ display # <<>>
    /\ display' = Tail(display)
    /\ LET event == Head(display)
       IN  CASE event.type = "InputDeviceListUpdate" ->
                   UIDeviceListUpdate("input", event.arg)
             [] event.type = "OutputDeviceListUpdate" ->
                   UIDeviceListUpdate("output", event.arg)
             [] event.type = "InputDeviceUpdate" ->
                   UIDeviceUpdate("input", event.arg.name)
             [] event.type = "OutputDeviceUpdate" ->
                   UIDeviceUpdate("output", event.arg.name)
             [] event.type = "RecoverableError" ->
                   /\ ui' = handle_error_in_ui
                   /\ UNCHANGED <<chan, tone_chan>>
             [] event.type = "FatalError" ->
                   /\ ui' = handle_fatal_error_in_ui
                   /\ UNCHANGED <<chan, tone_chan>>
             [] event.type = "Exit" ->
                   /\ ui' = [ui EXCEPT !.pc = "done"]
                   /\ UNCHANGED <<chan, tone_chan>>
             [] OTHER -> UNCHANGED <<ui, chan, tone_chan>>
    /\ UNCHANGED <<engine, present, device, current_device, stream, pending, pc,
                   op, via, arg, idx, local, result, exited>>
    /\ UNCHANGED audioVars
    /\ UNCHANGED <<tone, out_data, manager, threads, reference_tone>>

\* The DeviceManager as built and the UI after initialize_ui_with_device_data,
\* before DeviceManager::run and UI::run take their first step.
InitDevices ==
    /\ Init
    /\ engine = "LevelMeter"

NextDevices ==
    \/ DevicesUnplug
    \/ DevicesPlug
    \/ ManagerRun
    \/ ManagerPoll
    \/ ManagerInput
    \/ ManagerOutput
    \/ UIRecv

SpecDevices == InitDevices /\ [][NextDevices]_vars

----------------------------------------------------------------------------
(* The output callback of create_output_steam *)

\* RADS_PER_CYCLE in units of phase_increment * 1 kHz: a cycle is SampleRate
\* such units.
RADS_PER_CYCLE == SampleRate

\* sin(phase) in thousandths, for a phase in quarters of a cycle.
SinOfPhase(phase) == <<0, 1000, 0, 0 - 1000>>[(phase % RADS_PER_CYCLE) + 1]

\* A phase that is never reset.
PhaseKept(advanced) == advanced

\* if self.phase >= RADS_PER_CYCLE { self.phase = 0.0 }
PhaseReset(advanced) == IF advanced >= RADS_PER_CYCLE THEN 0 ELSE advanced

\* Sine::generate_tone_sample: the phase after the call and the sample.
generate_tone_sample(phase, reference_frequency, dbfs_adjustment_factor) ==
    LET after == PhaseReset(phase + reference_frequency)
    IN  [phase |-> after,
         sample |-> (SinOfPhase(after) * dbfs_adjustment_factor) \div 1000]

\* Frequencies (in kHz) and levels the control surface sends to the tone.
ToneFrequencies == {1, 3}

\* The payload of a ToneFrequencyUpdate or ToneLevelUpdate is carried in the
\* level field, that of a ToneModeUpdate in the flag field.
ToneCommands ==
    {Event("ToneFrequencyUpdate", [NoArg EXCEPT !.level = f]) :
        f \in ToneFrequencies}
    \cup {Event("ToneLevelUpdate", [NoArg EXCEPT !.level = l]) : l \in MeterLevels}
    \cup {Event("ToneModeUpdate", [NoArg EXCEPT !.flag = f]) : f \in BOOLEAN}

\* One arm of the callback's match.
ApplyCommand(command, t) ==
    CASE command.type = "ToneFrequencyUpdate" ->
            [t EXCEPT !.reference_frequency = command.arg.level]
      [] command.type = "ToneLevelUpdate" ->
            [t EXCEPT !.dbfs_adjustment_factor =
                         get_dbfs_adjustment_factor_from_level(command.arg.level)]
      [] OTHER -> t

RECURSIVE ApplyInReverse(_, _)
\* The commands applied newest first.
ApplyInReverse(commands, t) ==
    IF commands = <<>> THEN t
    ELSE ApplyInReverse(SubSeq(commands, 1, Len(commands) - 1),
                        ApplyCommand(commands[Len(commands)], t))

RECURSIVE ApplyCommands(_, _)
\* while let Ok(command) = ui_command_receiver.try_recv() { match command ... }
ApplyCommands(commands, t) ==
    IF commands = <<>> THEN t
    ELSE ApplyCommands(Tail(commands), ApplyCommand(Head(commands), t))

\* A frame in which only the left slot is written.
WriteLeftOnly(channels, s, tone_sample) ==
    [i \in 1..Len(channels) |->
        IF i = s.left + 1 THEN tone_sample ELSE channels[i]]

\* channels[left_channel_index] = tone_sample;
\* if let Some(index) = right_channel_index { channels[index] = tone_sample }
WriteFrame(channels, s, tone_sample) ==
    [i \in 1..Len(channels) |->
        IF i = s.left + 1 \/ (IsSome(s.right) /\ i = Unwrap(s.right) + 1)
        THEN tone_sample
        ELSE channels[i]]

RECURSIVE FillFrames(_, _, _)
\* for channels in data.chunks_mut(number_of_channels): the frames written and
\* the tone after the last of them.
FillFrames(frames, s, t) ==
    IF frames = <<>> THEN [tone |-> t, frames |-> <<>>]
    ELSE LET g == generate_tone_sample(t.phase, t.reference_frequency,
                                       t.dbfs_adjustment_factor)
             rest == FillFrames(Tail(frames), s, [t EXCEPT !.phase = g.phase])
         IN  [tone |-> rest.tone,
              frames |-> <<WriteFrame(Head(frames), s, g.sample)>> \o rest.frames]

\* Frames the host hands to a callback in one buffer.
FramesPerBuffer == 2

\* What the slots of an output buffer hold when the host hands it over: a
\* different value in every slot.
OutputData ==
    [n \in ChannelCounts |-> {[i \in 1..(n * FramesPerBuffer) |-> 90 + i]}]

\* The host calls the data callback of the playing output stream.  An index
\* out of the frame's bounds panics in the first frame: after the sample was
\* generated, and after the left slot was written when the left index is in
\* bounds.
OutputCallback ==
    /\ ~exited
    /\ engine = "ToneGenerator"
    /\ stream.state = "playing"
    /\ stream.callback = "alive"
    /\ tone_chan' = <<>>
    /\ LET n == ConfigChannels(stream.device)
           updated == ApplyCommands(tone_chan, tone)
       IN  \E data \in OutputData[n] :
              LET frames == chunks_exact(data, n)
                  filled == FillFrames(frames, stream, updated)
                  first == generate_tone_sample(updated.phase,
                                                updated.reference_frequency,
                                                updated.dbfs_adjustment_factor)
              IN  IF IndexOutOfBounds(stream, frames, n)
                  THEN /\ stream' = [stream EXCEPT !.callback = "dead"]
                       /\ tone' = [updated EXCEPT !.phase = first.phase]
                       /\ out_data' =
                             [before |-> data,
                              after |-> IF stream.left < n
                                        THEN [data EXCEPT ![stream.left + 1] =
                                                             first.sample]
                                        ELSE data]
                  ELSE /\ tone' = filled.tone
                       /\ out_data' = [before |-> data,
                                       after |-> Flatten(filled.frames)]
                       /\ UNCHANGED stream
    /\ UNCHANGED <<engine, present, device, current_device, pending, pc, op,
                   via, arg, idx, local, result, chan, display, exited>>
    /\ UNCHANGED audioVars
    /\ UNCHANGED <<manager, ui, threads, reference_tone>>

\* Commands that may wait on the tone's channel.
MaxPending == 2

\* The control surface sends one of the commands to the tone.
UISendToneOf(commands) ==
    /\ ~exited
    /\ engine = "ToneGenerator"
    /\ Len(tone_chan) < MaxPending
    /\ \E c \in commands : tone_chan' = Append(tone_chan, c)
    /\ UNCHANGED <<engine, present, device, current_device, stream, pending, pc,
                   op, via, arg, idx, local, result, chan, display, exited>>
    /\ UNCHANGED audioVars
    /\ UNCHANGED <<tone, out_data, manager, ui, threads, reference_tone>>

UISendTone == UISendToneOf(ToneCommands)

----------------------------------------------------------------------------
(* Sine::generate_tone_sample on its own *)

\* Frequencies in kHz: a negative one, zero, and ones that take the phase up
\* to the cycle, onto it and beyond it.
SineFrequencies == {0 - 1, 0, 1, 3, 5}

SineFactors == {get_dbfs_adjustment_factor_from_level(l) : l \in MeterLevels}

\* How far from 0 the phase is followed.
MaxPhase == 6

\* A fresh generator (Sine::new) and the arguments of its first call.
InitSine ==
    /\ \E f \in SineFrequencies, a \in SineFactors :
          EngineBuiltWith([ToneAsBuilt EXCEPT !.reference_frequency = f,
                                             !.dbfs_adjustment_factor = a])
    /\ engine = "ToneGenerator"
    /\ pc = "idle"
    /\ op = "none"
    /\ arg = NoArg
    /\ local = None

\* One call with the arguments held, whose sample is kept in out_data, and
\* the arguments of the next call.
SineCall ==
    /\ Abs(tone.phase + tone.reference_frequency) <= MaxPhase
    /\ LET g == generate_tone_sample(tone.phase, tone.reference_frequency,
                                     tone.dbfs_adjustment_factor)
       IN  /\ out_data' = [before |-> <<>>, after |-> <<g.sample>>]
           /\ \E f \in SineFrequencies, a \in SineFactors :
                 tone' = [tone EXCEPT !.phase = g.phase,
                                      !.reference_frequency = f,
                                      !.dbfs_adjustment_factor = a]
    /\ UNCHANGED <<engine, present, device, current_device, stream, pending, pc,
                   op, via, arg, idx, local, result, chan, display, exited>>
    /\ UNCHANGED audioVars
    /\ UNCHANGED <<tone_chan, manager, ui, threads, reference_tone>>

NextSine == SineCall

SpecSine == InitSine /\ [][NextSine]_vars

----------------------------------------------------------------------------
(* The callbacks of a playing stream *)

\* For each channel count, two buffers of FramesPerBuffer frames in which no
\* two slots carry the same sample (in tenths of full scale).
FrameData ==
    [n \in ChannelCounts |->
        {[i \in 1..(n * FramesPerBuffer) |-> i + b * n * FramesPerBuffer] :
            b \in {0, 1}}]

\* Device, left index and right index of the streams: stereo and mono
\* selections of the two-channel device, the one-channel device, and a right
\* index beyond its frame.
StreamShapes ==
    {<<"A", 0, Some(1)>>, <<"A", 0, None>>, <<"A", 1, None>>,
     <<"B", 0, None>>, <<"B", 0, Some(1)>>}

\* What the analysis thread's collections hold when a stream starts to play:
\* nothing, or the block it popped from an earlier stream of the meter (a
\* stereo stream on the two-channel device) before that stream was replaced.
\* The thread and its collections outlive every stream.
LeftoverBlocks ==
    {<<>>}
    \cup (IF engine = "LevelMeter"
          THEN {<<SampleFrameBuffer([left |-> 0, right |-> Some(1)],
                                    chunks_exact(d, 2))>> : d \in FrameData[2]}
          ELSE {})

\* An engine after Start was served: the stream plays, the analysis thread of
\* the LevelMeter runs.
InitCallbacks ==
    /\ engine \in Engines
    /\ present = {HostDevices[i] : i \in 1..Len(HostDevices)}
    /\ \E shape \in StreamShapes :
          /\ device = shape[1]
          /\ current_device =
                [get_default_device_data_from_device(shape[1]) EXCEPT
                    !.left_channel = to_string(shape[2] + 1),
                    !.right_channel = IF IsSome(shape[3])
                                      THEN Some(to_string(Unwrap(shape[3]) + 1))
                                      ELSE None]
          /\ stream = Play(NewStream(shape[1], shape[2], shape[3], "paused"))
    /\ pending = None
    /\ pc = "idle"
    /\ op = "none"
    /\ via = "none"
    /\ arg = NoArg
    /\ idx = NoIdx
    /\ local = None
    /\ result = NoResult
    /\ chan = <<>>
    /\ display = <<>>
    /\ exited = FALSE
    /\ sample_queue = <<>>
    /\ producer_poisoned = FALSE
    /\ stderr = {}
    /\ analysis = "running"
    /\ \E blocks \in LeftoverBlocks :
          /\ left_collection = [i \in 1..Len(blocks) |-> blocks[i].left]
          /\ right_collection = [i \in 1..Len(blocks) |-> blocks[i].right]
    /\ last_peak = [left |-> Finite(0), right |-> Finite(0)]
    /\ emitted = None
    /\ delta_mode_enabled = DEFAULT_DELTA_MODE
    /\ reference_level = DefaultReferenceLevel
    /\ tone_chan = <<>>
    /\ tone = ToneAsBuilt
    /\ out_data = NoData
    /\ manager = ManagerAsBuilt
    /\ ui = UIAsBuilt(TRUE)
    /\ threads = NoThreads
    /\ reference_tone = DefaultReferenceTone

InputCallbackFrames == InputCallbackOn("held", FrameData)

NextCallbacks ==
    \/ InputCallbackFrames
    \/ analysis_pop
    \/ DisplayRecv
    \/ UISendTone
    \/ OutputCallback

SpecCallbacks == InitCallbacks /\ [][NextCallbacks]_vars

\* The playing output stream on its own, on the two-channel device, under
\* updates of frequency and level.
InitTone ==
    /\ InitCallbacks
    /\ engine = "ToneGenerator"
    /\ device = "A"

ToneUpdates ==
    {c \in ToneCommands : c.type \in {"ToneFrequencyUpdate", "ToneLevelUpdate"}}

UISendUpdate == UISendToneOf(ToneUpdates)

NextTone ==
    \/ UISendUpdate
    \/ OutputCallback

SpecTone == InitTone /\ [][NextTone]_vars

\* The host keeps calling the data callback of a playing stream.
SpecToneLive ==
    /\ SpecTone
    /\ WF_vars(OutputCallback)

----------------------------------------------------------------------------
(* The two mutexes of the sample queue: the data callback and the analysis  *)
(* thread step by step                                                      *)

\* The open streams whose data callback holds the guard of
\* sample_producer_mutex.
Pushing ==
    {slot \in {"held", "pending"} :
        IsSome(OpenStreams[slot]) /\ SlotStream(slot).at = "locked"}

\* The threads that hold the guard of sample_receiver_mutex.
Popping == {k \in 1..MaxThreads : threads[k] = "loop"}

\* A lock that is given whoever holds it.
MutexAlwaysFree(holders) == TRUE

\* Mutex::lock returns once no guard of the mutex is alive.
MutexFree(holders) == holders = {}

\* The host calls the data callback of a playing stream: the frames of the
\* buffer are pushed onto the closure's buffers.
CallbackFrames(slot) ==
    /\ ~exited
    /\ engine = "LevelMeter"
    /\ IsSome(OpenStreams[slot])
    /\ LET s == SlotStream(slot)
           n == ConfigChannels(s.device)
       IN  /\ s.state = "playing"
           /\ s.callback = "alive"
           /\ s.at = "idle"
           /\ \E data \in SilentData[n] :
                LET frames == chunks_exact(data, n)
                IN  IF IndexOutOfBounds(s, frames, n)
                    THEN CallbackPanics(slot)
                    ELSE SetSlot(slot,
                            [s EXCEPT !.samples = PushFrames(s.samples, s, frames),
                                      !.at = "frames"])
    /\ UNCHANGED <<engine, present, device, current_device, pc, op, via, arg,
                   idx, local, result, chan, display, exited>>
    /\ UNCHANGED audioVars
    /\ UNCHANGED sideVars

\* sample_producer_mutex.lock(): the callback waits for the guard; a poisoned
\* mutex makes it print and exit.
CallbackLock(slot) ==
    /\ ~exited
    /\ IsSome(OpenStreams[slot])
    /\ LET s == SlotStream(slot)
       IN  /\ s.at = "frames"
           /\ MutexFree(Pushing)
           /\ \E stderr_ok \in BOOLEAN :
                IF ~producer_poisoned
                THEN /\ SetSlot(slot, [s EXCEPT !.at = "locked"])
                     /\ UNCHANGED <<stderr, exited>>
                ELSE IF stderr_ok
                THEN /\ stderr' = stderr \cup {"poisoned lock"}
                     /\ exited' = TRUE
                     /\ UNCHANGED <<stream, pending>>
                ELSE /\ SetSlot(slot, [s EXCEPT !.callback = "dead",
                                                !.at = "idle"])
                     /\ UNCHANGED <<stderr, exited>>
    /\ UNCHANGED <<engine, present, device, current_device, pc, op, via, arg,
                   idx, local, result, chan, display>>
    /\ UNCHANGED <<sample_queue, producer_poisoned, analysis, left_collection,
                   right_collection, last_peak, emitted, delta_mode_enabled,
                   reference_level>>
    /\ UNCHANGED sideVars

\* sample_producer.push(..), the two clear() and the end of the closure, where
\* the guard is dropped.  A panic of eprintln! drops the guard as well and
\* poisons the mutex.
CallbackPush(slot) ==
    /\ ~exited
    /\ IsSome(OpenStreams[slot])
    /\ LET s == SlotStream(slot)
           done(pushed) == [s EXCEPT !.samples = ClearedBuffers(s.samples, pushed),
                                     !.at = "idle"]
       IN  /\ s.at = "locked"
           /\ \E stderr_ok \in BOOLEAN :
                IF RingHasRoom(sample_queue)
                THEN /\ sample_queue' = RingPush(sample_queue, s.samples)
                     /\ SetSlot(slot, done(TRUE))
                     /\ UNCHANGED <<producer_poisoned, stderr>>
                ELSE IF stderr_ok
                THEN /\ stderr' = stderr \cup {"full ring buffer"}
                     /\ SetSlot(slot, done(FALSE))
                     /\ UNCHANGED <<sample_queue, producer_poisoned>>
                ELSE /\ SetSlot(slot, [s EXCEPT !.callback = "dead",
                                                !.at = "idle"])
                     /\ producer_poisoned' = TRUE
                     /\ UNCHANGED <<sample_queue, stderr>>
    /\ UNCHANGED <<engine, present, device, current_device, pc, op, via, arg,
                   idx, local, result, chan, display, exited>>
    /\ UNCHANGED <<analysis, left_collection, right_collection, last_peak,
                   emitted, delta_mode_enabled, reference_level>>
    /\ UNCHANGED sideVars

InputCallbackFrames_step == \E slot \in {"held", "pending"} : CallbackFrames(slot)
InputCallbackLock_step == \E slot \in {"held", "pending"} : CallbackLock(slot)
InputCallbackPush_step == \E slot \in {"held", "pending"} : CallbackPush(slot)

\* Dropping a stream ends its callbacks: the assignment that drops the held
\* stream returns once an invocation in progress has returned.
DropJoins == stream.at = "idle"

set_channel_assign_joined == DropJoins /\ set_channel_assign

\* The threads start_level_meter has not spawned yet.
FreeThreads == {k \in 1..MaxThreads : threads[k] = "none"}

\* thread::spawn(move || ..): the new thread is about to lock
\* sample_receiver_mutex, a clone of self.sample_consumer.
SpawnThread ==
    \E k \in FreeThreads :
        /\ \A j \in FreeThreads : k <= j
        /\ threads' = [threads EXCEPT ![k] = "lock"]

\* start_level_meter called by the owner of the LevelMeter before run().
start_level_meter ==
    /\ ~exited
    /\ engine = "LevelMeter"
    /\ pc = "new"
    /\ Cardinality(FreeThreads) > 1
    /\ SpawnThread
    /\ UNCHANGED <<engine, present, device, current_device, stream, pending, pc,
                   op, via, arg, idx, local, result, chan, display, exited>>
    /\ UNCHANGED audioVars
    /\ UNCHANGED <<tone_chan, tone, out_data, manager, ui, reference_tone>>

\* run(): start_level_meter, then the loop.
RunStartsLevelMeter ==
    /\ ~exited
    /\ engine = "LevelMeter"
    /\ pc = "new"
    /\ SpawnThread
    /\ pc' = "idle"
    /\ UNCHANGED <<engine, present, device, current_device, stream, pending, op,
                   via, arg, idx, local, result, chan, display, exited>>
    /\ UNCHANGED audioVars
    /\ UNCHANGED <<tone_chan, tone, out_data, manager, ui, reference_tone>>

\* sample_receiver_mutex.lock() in a spawned thread: the guard is kept for as
\* long as the thread loops.
ThreadLock ==
    /\ ~exited
    /\ \E k \in 1..MaxThreads :
          /\ threads[k] = "lock"
          /\ MutexFree(Popping)
          /\ threads' = [threads EXCEPT ![k] = "loop"]
    /\ analysis' = "running"
    /\ UNCHANGED <<engine, present, device, current_device, stream, pending, pc,
                   op, via, arg, idx, local, result, chan, display, exited>>
    /\ UNCHANGED <<sample_queue, producer_poisoned, stderr, left_collection,
                   right_collection, last_peak, emitted, delta_mode_enabled,
                   reference_level>>
    /\ UNCHANGED <<tone_chan, tone, out_data, manager, ui, reference_tone>>

InitLocks == Init /\ engine = "LevelMeter"

NextLocks ==
    \/ start_level_meter
    \/ RunStartsLevelMeter
    \/ ThreadLock
    \/ UISendFault
    \/ RunRecv
    \/ start
    \/ set_channel_on_ui_callback
    \/ set_channel_record
    \/ set_channel_parse
    \/ set_channel_create
    \/ set_channel_assign_joined
    \/ set_channel_pause
    \/ InputCallbackFrames_step
    \/ InputCallbackLock_step
    \/ InputCallbackPush_step
    \/ analysis_pop
    \/ DisplayRecv

SpecLocks == InitLocks /\ [][NextLocks]_vars

----------------------------------------------------------------------------
(* The tone across a rebuild of the output stream *)

\* The reference tones the owner of the ToneGenerator may set.
ReferenceTones == {DefaultReferenceTone, [frequency |-> 3, level |-> 0 - 600]}

\* set_reference_tone_on_ui_callback, called by the owner of the
\* ToneGenerator: self.reference_tone = reference_tone.clone().
set_reference_tone_on_ui_callback ==
    /\ ~exited
    /\ engine = "ToneGenerator"
    /\ CallReady
    /\ \E given \in ReferenceTones : reference_tone' = given
    /\ UNCHANGED <<engine, present, device, current_device, stream, pending, pc,
                   op, via, arg, idx, local, result, chan, display, exited>>
    /\ UNCHANGED audioVars
    /\ UNCHANGED <<tone_chan, tone, out_data, manager, ui, threads>>

\* The channel change of the ToneGenerator rebuilds the stream twice: in
\* set_output_device and once more after it.
CallSwap == CallOf({"start", "channel"})

\* One update of the level.
SwapUpdates == {Event("ToneLevelUpdate", [NoArg EXCEPT !.level = 0 - 600])}

UISendSwap == UISendToneOf(SwapUpdates)

InitSwap == Init /\ engine = "ToneGenerator"

NextSwap ==
    \/ CallSwap
    \/ set_reference_tone_on_ui_callback
    \/ start
    \/ set_device
    \/ set_device_create
    \/ set_device_assign
    \/ set_device_pause
    \/ set_channel_on_ui_callback
    \/ set_channel_record
    \/ set_channel_parse
    \/ set_channel_create
    \/ set_channel_assign
    \/ set_channel_pause
    \/ UISendSwap
    \/ OutputCallback

SpecSwap == InitSwap /\ [][NextSwap]_vars

----------------------------------------------------------------------------
(* The tone generator's channel under the commands of the UI *)

\* What the UI sends to the tone generator besides the tone's parameters:
\* Start and Stop (on_start_button_pressed, send_stop_all) and a
\* ToneDeviceUpdate for a device and its first two channels.
DrainCommands ==
    {Event("Start", NoArg), Event("Stop", NoArg),
     Event("ToneDeviceUpdate",
           [NoArg EXCEPT !.name = "A", !.left = <<"1">>, !.right = Some(<<"2">>)]),
     Event("ToneLevelUpdate", [NoArg EXCEPT !.level = 0 - 600])}

UISendDrain == UISendToneOf(DrainCommands)

NextDrain ==
    \/ UISendDrain
    \/ OutputCallback

SpecDrain == InitTone /\ [][NextDrain]_vars

----------------------------------------------------------------------------
(* reset_to_default_*_device after a device change, both called by the owner *)

\* The handlers of either engine are public: an owner that does not use
\* run() calls them itself.
CallReset == CallDirect({"device", "reset"})

NextReset ==
    \/ CallReset
    \/ set_device_on_ui_callback
    \/ update_current_device
    \/ reset_to_default_device
    \/ reset_default_data
    \/ set_device
    \/ set_device_create
    \/ set_device_assign
    \/ set_device_pause

SpecReset == Init /\ [][NextReset]_vars

----------------------------------------------------------------------------
(* A device selected from a list enumerated after new() *)

\* (index, name) pairs of a device list enumerated now: the position of each
\* plugged device among the plugged ones, and its name.
EnumeratedArgs ==
    LET names == DeviceListOf(present).devices
    IN  {[NoArg EXCEPT !.index = i - 1, !.name = names[i]] : i \in 1..Len(names)}

\* set_input_device_on_ui_callback((index, name)) called by the owner with a
\* pair of the list enumerated now.
CallEnumerated ==
    /\ ~exited
    /\ engine = "LevelMeter"
    /\ CallReady
    /\ \E a \in EnumeratedArgs :
          /\ op' = "device"
          /\ arg' = a
          /\ via' = "call"
          /\ pc' = EntryPc("device")
    /\ UNCHANGED <<engine, present, device, current_device, stream, pending,
                   idx, local, result, chan, display, exited>>
    /\ UNCHANGED audioVars
    /\ UNCHANGED sideVars

NextEnumerated ==
    \/ HostUnplug
    \/ HostPlug
    \/ CallEnumerated
    \/ set_device_on_ui_callback
    \/ update_current_device
    \/ set_device
    \/ set_device_create
    \/ set_device_assign
    \/ set_device_pause

SpecEnumerated == InitLocks /\ [][NextEnumerated]_vars

----------------------------------------------------------------------------
(* The UI loop under the selections of the user *)

\* The window's event loop runs the closures UI::run queued with
\* upgrade_in_event_loop: the drop-downs show the lists the UI holds.
UIEventLoop ==
    /\ ui.shown # [input |-> ui.input_device_list.devices,
                   output |-> ui.output_device_list.devices]
    /\ ui' = [ui EXCEPT !.shown = [input |-> ui.input_device_list.devices,
                                   output |-> ui.output_device_list.devices]]
    /\ UNCHANGED <<engine, present, device, current_device, stream, pending, pc,
                   op, via, arg, idx, local, result, chan, display, exited>>
    /\ UNCHANGED audioVars
    /\ UNCHANGED <<tone_chan, tone, out_data, manager, threads, reference_tone>>

\* Events the window's callbacks send to UI::run.
UISendsItself(event) ==
    /\ Len(display) < MaxDisplay
    /\ display' = Append(display, event)
    /\ UNCHANGED <<engine, present, device, current_device, stream, pending, pc,
                   op, via, arg, idx, local, result, chan, exited>>
    /\ UNCHANGED audioVars
    /\ UNCHANGED sideVars

\* on_select_new_input_device_callback / on_select_new_output_device_callback:
\* the user picks a name a drop-down offers.
UISelectDevice ==
    \/ \E i \in 1..Len(ui.shown.input) :
          UISendsItself(Event("InputDeviceUpdate",
                              [NoArg EXCEPT !.name = ui.shown.input[i]]))
    \/ \E i \in 1..Len(ui.shown.output) :
          UISendsItself(Event("OutputDeviceUpdate",
                              [NoArg EXCEPT !.name = ui.shown.output[i]]))

\* Exit reaches UI::run.
UIClose == UISendsItself(Event("Exit", NoArg))

\* An error reaches UI::run.
UIError == UISendsItself(Event("RecoverableError", NoArg))

\* The engines' ends of the two channels have taken the events sent so far;
\* what they do with them is specified with the engines.
EnginesTake ==
    /\ chan # <<>> \/ tone_chan # <<>>
    /\ chan' = <<>>
    /\ tone_chan' = <<>>
    /\ UNCHANGED <<engine, present, device, current_device, stream, pending, pc,
                   op, via, arg, idx, local, result, display, exited>>
    /\ UNCHANGED audioVars
    /\ UNCHANGED <<tone, out_data, manager, ui, threads, reference_tone>>

\* A callback of the window holds one closure: registering replaces it.
Registered(callbacks, callback, closure) ==
    [callbacks EXCEPT ![callback] = closure]

\* UI::on_close_error_dialog: ui.on_close_error_dialog(hide the dialog).
on_close_error_dialog(callbacks) ==
    Registered(callbacks, "close_error_dialog", "hide")

\* UI::on_close_fatal_error_dialog: ui.on_close_error_dialog(exit).
on_close_fatal_error_dialog(callbacks) ==
    Registered(callbacks, "close_error_dialog", "exit")

\* UI::create_ui_callbacks, called once before UI::run; the other callbacks
\* it registers are the senders specified above.
create_ui_callbacks ==
    /\ ui.callbacks = NoCallbacks
    /\ ui' = [ui EXCEPT !.callbacks =
                 on_close_fatal_error_dialog(on_close_error_dialog(@))]
    /\ UNCHANGED <<engine, present, device, current_device, stream, pending, pc,
                   op, via, arg, idx, local, result, chan, display, exited>>
    /\ UNCHANGED audioVars
    /\ UNCHANGED <<tone_chan, tone, out_data, manager, threads, reference_tone>>

DialogVisible(dialog) ==
    IF dialog = "error" THEN ui.error_dialog_visible
    ELSE ui.fatal_error_dialog_visible

\* The user closes a dialog that is shown: the window runs the closure of the
\* dialog's close callback.
CloseDialog(dialog) ==
    /\ ~exited
    /\ DialogVisible(dialog)
    /\ LET closure == IF dialog = "error"
                      THEN ui.callbacks.close_error_dialog
                      ELSE ui.callbacks.close_fatal_error_dialog
       IN  CASE closure = "hide" ->
                   /\ ui' = [ui EXCEPT !.error_dialog_visible = FALSE]
                   /\ UNCHANGED exited
             [] closure = "exit" ->
                   /\ exited' = TRUE
                   /\ UNCHANGED ui
             [] OTHER -> UNCHANGED <<ui, exited>>
    /\ UNCHANGED <<engine, present, device, current_device, stream, pending, pc,
                   op, via, arg, idx, local, result, chan, display>>
    /\ UNCHANGED audioVars
    /\ UNCHANGED <<tone_chan, tone, out_data, manager, threads, reference_tone>>

UICloseDialog == \E dialog \in {"error", "fatal"} : CloseDialog(dialog)

\* A fatal error reaches UI::run.
UIFatalError == UISendsItself(Event("FatalError", NoArg))

\* The engines take an event before the host, the DeviceManager or the UI
\* takes its next step.
EnginesIdle == chan = <<>> /\ tone_chan = <<>>

SelectUnplug == EnginesIdle /\ HostUnplug
SelectPlug == EnginesIdle /\ HostPlug
SelectManagerRun == EnginesIdle /\ ManagerRun
SelectManagerPoll == EnginesIdle /\ ManagerPoll
SelectManagerInput == EnginesIdle /\ ManagerInput
SelectManagerOutput == EnginesIdle /\ ManagerOutput
SelectEventLoop == EnginesIdle /\ UIEventLoop
SelectDevice == EnginesIdle /\ UISelectDevice
SelectError == EnginesIdle /\ UIError
SelectClose == EnginesIdle /\ UIClose
SelectRecv == EnginesIdle /\ UIRecv
SelectCallbacks == EnginesIdle /\ create_ui_callbacks
SelectFatalError == EnginesIdle /\ UIFatalError
SelectCloseDialog == EnginesIdle /\ UICloseDialog

\* B may be unplugged and plugged in again; the user selects devices and
\* closes dialogs, errors arrive and the window may be closed.
NextSelect ==
    \/ EnginesTake
    \/ SelectUnplug
    \/ SelectPlug
    \/ SelectManagerRun
    \/ SelectManagerPoll
    \/ SelectManagerInput
    \/ SelectManagerOutput
    \/ SelectEventLoop
    \/ SelectDevice
    \/ SelectError
    \/ SelectClose
    \/ SelectRecv
    \/ SelectCallbacks
    \/ SelectFatalError
    \/ SelectCloseDialog

SpecSelect == InitDevices /\ [][NextSelect]_vars

----------------------------------------------------------------------------
(* Properties *)

\* No handler is being executed.
AtHome == pc \in {"idle", "new"}

ChangeOps == {"device", "channel", "reset"}

HasNotification(type) == \E i \in 1..Len(display) : display[i].type = type

\* C1: every stream the engine builds is left paused.  As long as the last
\* handler that finished is new() or a device change, channel change or
\* reset that returned Ok, the engine's stream is paused; it can play only
\* once a later start() has finished.
C1_NewStreamLeftPaused ==
    (/\ AtHome
     /\ result.op \in ChangeOps \cup {"none"}
     /\ result.status \in {"Ok", "none"})
        => stream.state = "paused"

\* C1 witness: a device change to B has returned Ok and the stream built for
\* B is paused.
C1_Witness ==
    /\ AtHome
    /\ result.op = "device"
    /\ result.status = "Ok"
    /\ stream.device = "B"
    /\ stream.state = "paused"

\* C2: in the device change, the channel change and the reset, pausing the
\* stream comes first.  A step that replaces the device handle, the
\* current-device record or the stream is taken only while the held stream is
\* paused, and a change whose pause fails returns the stop error with the
\* device handle, the record and the stream as they were.
C2_PauseBeforeReplace ==
    [][/\ (\/ device' # device
           \/ current_device' # current_device
           \/ (IsSome(pending) /\ pending' = None))
          => stream.state = "paused"
       /\ (pc \in {"dev_stop", "ch_stop", "rs_stop"} /\ pc' # pc)
          => \/ /\ stream'.state = "paused"
                /\ pc' \in {"uc_update", "ch_record", "rs_default"}
                /\ UNCHANGED <<device, current_device, pending>>
             \/ /\ result'.cause = StopError
                /\ result'.op = op
                /\ UNCHANGED <<device, current_device, stream, pending>>]_vars

\* C2 witness: a device change has paused the stream and replaced the device
\* handle and the record, and the old stream, still held, is paused.
C2_Witness ==
    /\ op = "device"
    /\ pc = "sd_set"
    /\ device = "B"
    /\ current_device.name = "B"
    /\ stream.device = "A"
    /\ stream.state = "paused"

\* C3: hot-swaps on one engine never interleave.  A handler begins only when
\* no handler is being executed and no newly built stream waits to be
\* assigned, whatever commands wait in the channel.
C3_SwapsSerialized ==
    [][(op' # op /\ op' # "none")
          => (op = "none" /\ AtHome /\ pending = None)]_vars

\* C3 witness: a channel change waits in the command channel while a device
\* change is between its build and its assignment.
C3_Witness ==
    /\ op = "device"
    /\ pc = "sd_assign"
    /\ chan # <<>>
    /\ Head(chan).type = "MeterChannelUpdate"

\* C4: a device change that names a device the host no longer has falls back
\* to the default device, sends a RecoverableError to the display and leaves
\* the control thread running.
C4_FallbackOnDeviceNotFound ==
    (result.op = "device" /\ result.cause = "DeviceNotFound")
        => /\ pc # "panicked"
           /\ device = DefaultDevice
           /\ stream.device = DefaultDevice
           /\ HasNotification("RecoverableError")

\* C5: a failed device or channel change is recoverable: the control loop of
\* the LevelMeter survives it and a non-fatal notification is sent.
C5_FailedChangeRecoverable ==
    (/\ engine = "LevelMeter"
     /\ result.op \in {"device", "channel"}
     /\ result.cause \in {"ChannelIndex", "DeviceNotFound", StreamError})
        => /\ pc # "panicked"
           /\ HasNotification("RecoverableError")

C7_PoisonTolerated == producer_poisoned => ~exited

\* C8: once the host has reported a stream error to the error callback, a
\* FatalError notification is delivered to the display and the process has
\* not been terminated.
C8_StreamErrorIsNotified ==
    ("stream error" \in stderr) => (~exited /\ HasNotification("FatalError"))

C10_OneOpenStream == pending = None

\* The channel labels the engine lists for the device it holds.
HeldDeviceLabels == get_channel_list_from_device(device)

IndexesInRange(s) ==
    /\ s.left < ConfigChannels(s.device)
    /\ IsSome(s.right) => Unwrap(s.right) < ConfigChannels(s.device)

\* C12: for every stream that is built, the left index and, when present,
\* the right index are smaller than the number of channels per frame of the
\* stream.
C12_IndexesInRange ==
    /\ IndexesInRange(stream)
    /\ IsSome(pending) => IndexesInRange(Unwrap(pending))

----------------------------------------------------------------------------
(* The label resolver on its own *)

\* Labels that are not the decimal form of a channel number.
OddLabels ==
    {<<>>, <<"a", "b", "c">>, <<"x">>, <<"+">>, <<"-", "1">>, <<"+", "7">>,
     <<"0", "3">>, <<"1", ".", "5">>, <<" ", "1">>}

ResolverLabels == {to_string(n) : n \in 0..MaxLabel} \cup OddLabels

\* The places that turn channel labels into frame indexes: the resolver of
\* device_manager.rs, and in devices.rs and devices/output.rs the constructor
\* and the output channel callback, which take the right label as a String.
IndexPaths == {"resolve", "new", "set_output_channel_on_ui_callback"}

\* One of them is about to run with a left label and a right label; only the
\* resolver takes an optional right label.
InitResolve ==
    /\ EngineAsBuilt
    /\ engine = "LevelMeter"
    /\ local = None
    /\ pc \in IndexPaths
    /\ op = pc
    /\ \E l \in ResolverLabels :
       \E r \in {None} \cup {Some(x) : x \in ResolverLabels} :
          /\ r = None => pc = "resolve"
          /\ arg = [NoArg EXCEPT !.left = l, !.right = r]

\* The call of get_channel_indexes_from_channel_names and what it returns.
ResolveLabels ==
    /\ pc = "resolve"
    /\ LET r == get_channel_indexes_from_channel_names(arg.left, arg.right)
       IN  /\ idx' = [left |-> r.left, right |-> r.right]
           /\ result' = [op |-> "resolve",
                         status |-> IF r.ok THEN "Ok" ELSE "ChannelIndex",
                         cause |-> r.message,
                         value |-> None]
    /\ pc' = "resolved"
    /\ UNCHANGED <<engine, present, device, current_device, stream, pending, op,
                   via, arg, local, chan, display, exited>>
    /\ UNCHANGED audioVars
    /\ UNCHANGED sideVars
\* Result::unwrap_or
UnwrapOr(p, default) == IF p.ok THEN p.value ELSE default

\* Width of usize, scaled down from the 64 bits of the usual target.
USIZE_BITS == 16

\* `n - 1` on usize where the build has no overflow checks.
WrappingSub1(n) == (n - 1) % (2 ^ USIZE_BITS)

\* Devices::new: each label parsed, defaulted and reduced with saturating_sub.
new_channel_indexes ==
    /\ pc = "new"
    /\ LET l == UnwrapOr(ParseUsize(arg.left), 1)
           r == UnwrapOr(ParseUsize(Unwrap(arg.right)), 0)
       IN  idx' = [left |-> SaturatingSub1(l), right |-> Some(SaturatingSub1(r))]
    /\ result' = [op |-> op, status |-> "Ok", cause |-> "", value |-> None]
    /\ pc' = "indexed"
    /\ UNCHANGED <<engine, present, device, current_device, stream, pending, op,
                   via, arg, local, chan, display, exited>>
    /\ UNCHANGED audioVars
    /\ UNCHANGED sideVars
\* set_output_channel_on_ui_callback of devices.rs and devices/output.rs: each
\* label parsed, defaulted and reduced with `- 1`.  On 0 the subtraction
\* panics in a build with overflow checks and wraps in a build without.
output_channel_indexes ==
    /\ pc = "set_output_channel_on_ui_callback"
    /\ LET l == UnwrapOr(ParseUsize(arg.left), 1)
           r == UnwrapOr(ParseUsize(Unwrap(arg.right)), 0)
       IN  \E overflow_checks \in BOOLEAN :
              IF overflow_checks /\ (l = 0 \/ r = 0)
              THEN /\ result' = [op |-> op, status |-> "Panic",
                                 cause |-> "attempt to subtract with overflow",
                                 value |-> None]
                   /\ idx' = idx
              ELSE /\ result' = [op |-> op, status |-> "Ok", cause |-> "",
                                 value |-> None]
                   /\ idx' = [left |-> WrappingSub1(l),
                              right |-> Some(WrappingSub1(r))]
    /\ pc' = "indexed"
    /\ UNCHANGED <<engine, present, device, current_device, stream, pending, op,
                   via, arg, local, chan, display, exited>>
    /\ UNCHANGED audioVars
    /\ UNCHANGED sideVars
NextResolve ==
    \/ ResolveLabels
    \/ new_channel_indexes
    \/ output_channel_indexes

SpecResolve == InitResolve /\ [][NextResolve]_vars

\* C13: for every n in 1..64 the label of n resolves to left = n - 1, with
\* right = None when no right label is given and right = Some(m - 1) when the
\* right label is that of an m in 1..64.
C13_LabelResolvesToIndex ==
    pc = "resolved" =>
        \A n \in 1..MaxLabel :
            arg.left = to_string(n) =>
                /\ arg.right = None =>
                      /\ result.status = "Ok"
                      /\ idx = [left |-> n - 1, right |-> None]
                /\ \A m \in 1..MaxLabel :
                      arg.right = Some(to_string(m)) =>
                          /\ result.status = "Ok"
                          /\ idx = [left |-> n - 1, right |-> Some(m - 1)]

\* C13 witness: "64" and "10" have been resolved to 63 and 9.
C13_Witness ==
    /\ pc = "resolved"
    /\ arg.left = <<"6", "4">>
    /\ arg.right = Some(<<"1", "0">>)
    /\ idx = [left |-> 63, right |-> Some(9)]

\* Labels str::parse::<usize> rejects.
UnparsableLabels ==
    {<<>>, <<"a", "b", "c">>, <<"x">>, <<"+">>, <<"-", "1">>, <<"1", ".", "5">>,
     <<" ", "1">>}

ParserMessage(label) ==
    IF label = <<>> THEN ParseIntErrorEmpty ELSE ParseIntErrorInvalidDigit

\* C14: the label "0" resolves to index 0 without an error; a label that is
\* not a number, such as "abc", makes the call fail with a ChannelIndex error
\* that carries the parser's message; a right label that is not a number
\* fails the whole call even when the left label is valid.
C14_ZeroAndUnparsableLabels ==
    pc = "resolved" =>
        /\ (arg.left = <<"0">> /\ arg.right \in {None, Some(<<"0">>)}) =>
              /\ result.status = "Ok"
              /\ idx.left = 0
              /\ idx.right = (IF IsSome(arg.right) THEN Some(0) ELSE None)
        /\ arg.left \in UnparsableLabels =>
              /\ result.status = "ChannelIndex"
              /\ result.cause = ParserMessage(arg.left)
        /\ arg.left = <<"a", "b", "c">> =>
              result.cause = "invalid digit found in string"
        /\ \A n \in 0..MaxLabel :
              (/\ arg.left = to_string(n)
               /\ IsSome(arg.right)
               /\ Unwrap(arg.right) \in UnparsableLabels) =>
                  /\ result.status = "ChannelIndex"
                  /\ result.cause = ParserMessage(Unwrap(arg.right))

C14_Witness ==
    /\ pc = "resolved"
    /\ arg.left = <<"2">>
    /\ arg.right = Some(<<"a", "b", "c">>)
    /\ result.status = "ChannelIndex"
    /\ result.cause = ParseIntErrorInvalidDigit

\* C15: on every path that turns labels into frame indexes the subtraction
\* saturates: the path ends without a panic, and a label that parses to 0 or is
\* defaulted to 0 (the empty right label of a one-channel device) gives index
\* 0; this includes set_output_channel_on_ui_callback.
C15_IndexSubtractionSaturates ==
    pc = "indexed" =>
        /\ result.status = "Ok"
        /\ idx.left = SaturatingSub1(UnwrapOr(ParseUsize(arg.left), 1))
        /\ idx.right = Some(SaturatingSub1(UnwrapOr(ParseUsize(Unwrap(arg.right)), 0)))

----------------------------------------------------------------------------
(* The level functions on their own *)

\* Longest sample window tried.
MaxWindow == 3

\* Finite levels tried around zero, in hundredths of a dB.
LevelRange == 30

\* Samples of a window, in tenths of full scale.
WindowSamples == {0 - 10, 0 - 5, 0 - 2, 0, 1, 3, 7}

Windows == UNION {[1..n -> WindowSamples] : n \in 0..MaxWindow}

FormatLevels ==
    {NegInfinity, PosInfinity, NaN}
    \cup {Finite(h) : h \in (0 - LevelRange)..LevelRange}
    \cup {Finite(h) : h \in {0 - 1800, 0 - 995, 0 - 602, 995, 1234, 1800}}

\* A window is about to be measured, or a level is about to be formatted.
InitLevel ==
    /\ EngineAsBuilt
    /\ engine = "LevelMeter"
    /\ arg = NoArg
    /\ \/ pc = "peak" /\ local \in Windows
       \/ pc = "format" /\ local \in FormatLevels
    /\ op = pc

peak_of_window ==
    /\ pc = "peak"
    /\ result' = [op |-> op, status |-> "Ok", cause |-> "",
                  value |-> Some(get_peak_of_sine_wave_samples(local))]
    /\ pc' = "peaked"
    /\ UNCHANGED <<engine, present, device, current_device, stream, pending, op,
                   via, arg, idx, local, chan, display, exited>>
    /\ UNCHANGED audioVars
    /\ UNCHANGED sideVars
format_level ==
    /\ pc = "format"
    /\ result' = [op |-> op, status |-> "Ok", cause |-> "",
                  value |-> Some(format_peak_delta_values_for_display(local))]
    /\ pc' = "formatted"
    /\ UNCHANGED <<engine, present, device, current_device, stream, pending, op,
                   via, arg, idx, local, chan, display, exited>>
    /\ UNCHANGED audioVars
    /\ UNCHANGED sideVars
NextLevel ==
    \/ peak_of_window
    \/ format_level

SpecLevel == InitLevel /\ [][NextLevel]_vars

\* The number of tenths a text of the form [-]d..d.d stands for.
TenthsOfText(text) ==
    LET negative == text # <<>> /\ text[1] = "-"
        body == IF negative THEN Tail(text) ELSE text
        whole == DigitsValue(SubSeq(body, 1, Len(body) - 2))
        tenths == 10 * whole + DigitValue(body[Len(body)])
    IN  IF negative THEN 0 - tenths ELSE tenths

IsOneDecimalText(text) ==
    LET body == IF text # <<>> /\ text[1] = "-" THEN Tail(text) ELSE text
    IN  /\ Len(body) >= 3
        /\ body[Len(body) - 1] = "."
        /\ IsDigit(body[Len(body)])
        /\ \A i \in 1..(Len(body) - 2) : IsDigit(body[i])

\* The text is the level rounded to one decimal: it is within half a tenth.
IsRoundedToOneDecimal(text, h) ==
    /\ IsOneDecimalText(text)
    /\ 10 * TenthsOfText(text) - h \in (0 - 5)..5

\* C16: the display text of a level is "-" for +infinity, -infinity and NaN;
\* "0.0" for a value strictly between -0.1 and 0.0; the value rounded to one
\* decimal after a "+" for a value greater than 0.1; and the value rounded to
\* one decimal with nothing added for every other finite value.
C16_DisplayFormat ==
    pc = "formatted" =>
        LET text == Unwrap(result.value)
            h == local.hundredths
        IN  /\ local \in {NegInfinity, PosInfinity, NaN} => text = <<"-">>
            /\ (local.kind = "finite" /\ h > 0 - 10 /\ h < 0) =>
                  text = <<"0", ".", "0">>
            /\ (local.kind = "finite" /\ h > 10) =>
                  /\ Head(text) = "+"
                  /\ IsRoundedToOneDecimal(Tail(text), h)
            /\ (local.kind = "finite" /\ h <= 10 /\ ~(h > 0 - 10 /\ h < 0)) =>
                  IsRoundedToOneDecimal(text, h)

C16_Witness ==
    /\ pc = "formatted"
    /\ local = Finite(16)
    /\ result.value = Some(<<"+", "0", ".", "2">>)

\* C17: the peak of a window is the dBFS value of its largest absolute sample,
\* whatever the signs of the samples; for an empty window and for a window of
\* zeros it is minus infinity, returned as a value.
C17_PeakOfWindow ==
    pc = "peaked" =>
        LET peak == Unwrap(result.value)
        IN  /\ result.status = "Ok"
            /\ (\A i \in 1..Len(local) : local[i] = 0) => peak = NegInfinity
            /\ \A i \in 1..Len(local) :
                  (/\ local[i] # 0
                   /\ \A j \in 1..Len(local) :
                         local[j] * local[j] <= local[i] * local[i]) =>
                      \E k \in 1..10 :
                         /\ k * k = local[i] * local[i]
                         /\ peak = Finite(DbfsOfTenths[k])

C17_Witness ==
    /\ pc = "peaked"
    /\ local = <<1, 0 - 5, 3>>
    /\ result.value = Some(Finite(0 - 602))

----------------------------------------------------------------------------
(* Properties of the running meter *)

\* The analysis thread's step completes a window: it pops a block while the
\* collections hold more than INPUT_BUFFERS_FOR_PEAK_CALCULATION blocks.
WindowCompletes ==
    /\ sample_queue # <<>>
    /\ sample_queue' = Tail(sample_queue)
    /\ Len(left_collection) > INPUT_BUFFERS_FOR_PEAK_CALCULATION

\* The step sends a MeterLevelUpdate.
UpdateSent == Len(display') > Len(display)

WindowLeftPeak == get_peak_of_sine_wave_samples(Flatten(left_collection))
WindowRightPeak == get_peak_of_sine_wave_samples(Flatten(right_collection))

\* C18: every update sent carries, on both channels, the window's peak less
\* the reference level held at that moment when delta mode is enabled, and the
\* window's peak itself when delta mode is disabled.
C18_ReadingIsPeakLessReference ==
    [][UpdateSent =>
          LET e == Unwrap(emitted')
              m == display'[Len(display')]
              left == IF delta_mode_enabled
                      THEN LevelMinus(WindowLeftPeak, reference_level)
                      ELSE WindowLeftPeak
              right == IF delta_mode_enabled
                       THEN LevelMinus(WindowRightPeak, reference_level)
                       ELSE WindowRightPeak
          IN  /\ e.left = left
              /\ e.right = right
              /\ m.type = "MeterLevelUpdate"
              /\ m.arg.left = format_peak_delta_values_for_display(left)
              /\ m.arg.right = format_peak_delta_values_for_display(right)]_vars

C18_Witness ==
    /\ emitted = Some([left |-> Finite(600), right |-> Finite(600),
                       delta_mode_enabled |-> TRUE,
                       reference_level |-> 0 - 600])
    /\ display # <<>>
    /\ display[Len(display)].arg.left = <<"+", "6", ".", "0">>
    /\ display[Len(display)].arg.right = <<"+", "6", ".", "0">>

\* The pair last sent is not the pair the last measured peaks give under the
\* mode and reference level now in force, while the stream plays.
Outdated ==
    /\ ~exited
    /\ stream.state = "playing"
    /\ stream.callback = "alive"
    /\ IsSome(emitted)
    /\ \/ Unwrap(emitted).left # DeltaAdjusted(last_peak.left)
       \/ Unwrap(emitted).right # DeltaAdjusted(last_peak.right)

\* C19: after a change of delta mode or of the reference level that is
\* processed while the meter plays, an update that reflects the change is
\* eventually sent, also when the measured peaks stay the same.
C19_ChangeIsReflected == Outdated ~> ~Outdated

\* C20: for a completed window an update is sent exactly when the window's
\* left or right reading differs from the pair last sent.
C20_UpdateIffReadingDiffers ==
    [][(WindowCompletes /\ IsSome(emitted)) =>
          (UpdateSent <=>
              \/ DeltaAdjusted(WindowLeftPeak) # Unwrap(emitted).left
              \/ DeltaAdjusted(WindowRightPeak) # Unwrap(emitted).right)]_vars

----------------------------------------------------------------------------
(* Device lists *)

\* The UI loop handles a list update for dir whose list lacks the name of the
\* current device.
HandlesListLackingCurrent(dir) ==
    /\ ui.pc = "recv"
    /\ display # <<>>
    /\ display' = Tail(display)
    /\ manager' = manager
    /\ Head(display).type = (IF dir = "input" THEN "InputDeviceListUpdate"
                             ELSE "OutputDeviceListUpdate")
    /\ ~Contains(Head(display).arg,
                 IF dir = "input" THEN ui.current_input_device.name
                 ELSE ui.current_output_device.name)

\* What the handling leaves for dir: Stop on both channels, the current device
\* the first of the list with its first and (if any) second channel, the device
\* update after the Stop on the engine's channel, the current name in the list.
FellBackToFirst(dir) ==
    LET list == Head(display).arg
        current == IF dir = "input" THEN ui'.current_input_device
                   ELSE ui'.current_output_device
        own == IF dir = "input" THEN chan ELSE tone_chan
        own_after == IF dir = "input" THEN chan' ELSE tone_chan'
        other == IF dir = "input" THEN tone_chan ELSE chan
        other_after == IF dir = "input" THEN tone_chan' ELSE chan'
        type == IF dir = "input" THEN "MeterDeviceUpdate" ELSE "ToneDeviceUpdate"
    IN  /\ ui'.pc = "recv"
        /\ list.devices # <<>>
        /\ current = CurrentDeviceOf(list.devices[1], list.channels[1])
        /\ Contains(list, current.name)
        /\ own_after = own \o <<Event("Stop", NoArg), DeviceUpdate(type, current)>>
        /\ other_after = Append(other, Event("Stop", NoArg))

\* C21: when the UI loop handles a device-list update whose list lacks the
\* current device's name, it sends Stop to both engines, makes the first
\* device of the new list current with its first (and second, if any)
\* channel, and sends the device update to that direction's engine after the
\* Stop; afterwards the current device's name is in the list.
C21_FallbackToFirstDevice ==
    [][\A dir \in {"input", "output"} :
          HandlesListLackingCurrent(dir) => FellBackToFirst(dir)]_vars

\* The DeviceManager's comparison of the polled list of dir with its snapshot.
ManagerCompares(dir) ==
    /\ manager.pc = dir
    /\ manager' # manager

SentToBoth(dir, polled) ==
    IF dir = "input"
    THEN /\ display' = Append(display, Event("InputDeviceListUpdate", polled))
         /\ chan' = Append(chan, Event("InputDeviceListUpdate", polled))
         /\ tone_chan' = tone_chan
    ELSE /\ display' = Append(display, Event("OutputDeviceListUpdate", polled))
         /\ tone_chan' = Append(tone_chan,
                                Event("OutputDeviceListUpdate", polled))
         /\ chan' = chan

\* C22: a poll whose list differs by value from the snapshot sends the list
\* update of that direction to the UI and to that direction's engine and
\* stores the list as the new snapshot; a poll whose list equals the snapshot
\* sends nothing and leaves the snapshot.
C22_UpdateIffListDiffers ==
    [][\A dir \in {"input", "output"} :
          ManagerCompares(dir) =>
             LET polled == IF dir = "input"
                           THEN Unwrap(manager.polled).input_devices
                           ELSE Unwrap(manager.polled).output_devices
                 snapshot == IF dir = "input" THEN manager.input_devices
                             ELSE manager.output_devices
                 stored == IF dir = "input" THEN manager'.input_devices
                           ELSE manager'.output_devices
             IN  IF polled # snapshot
                 THEN SentToBoth(dir, polled) /\ stored = polled
                 ELSE /\ UNCHANGED <<display, chan, tone_chan>>
                      /\ stored = snapshot]_vars

\* B was unplugged and is plugged in again: the changed input list has been
\* stored and sent to the UI and the LevelMeter, the output list is still to
\* be compared.
C22_Witness ==
    /\ manager.pc = "output"
    /\ manager.input_devices = DeviceListOf({"A", "B", "C"})
    /\ manager.output_devices = DeviceListOf({"A", "C"})
    /\ display = <<Event("InputDeviceListUpdate", manager.input_devices)>>
    /\ chan # <<>>
    /\ chan[Len(chan)] = Event("InputDeviceListUpdate", manager.input_devices)

----------------------------------------------------------------------------
(* The callbacks *)

\* The samples of one channel of an interleaved buffer, in frame order.
ChannelOf(data, n, index) ==
    [k \in 1..(Len(data) \div n) |-> data[(k - 1) * n + index + 1]]

\* The output callback ran.
OutputCallbackRan ==
    /\ engine = "ToneGenerator"
    /\ tone_chan' = <<>>
    /\ <<tone_chan, tone, out_data, stream>>' # <<tone_chan, tone, out_data, stream>>

HasCommand(type) == \E i \in 1..Len(tone_chan) : tone_chan[i].type = type

\* The newest pending command of the type.
LastCommand(type) ==
    tone_chan[CHOOSE i \in 1..Len(tone_chan) :
                 /\ tone_chan[i].type = type
                 /\ \A j \in (i + 1)..Len(tone_chan) : tone_chan[j].type # type]

\* C23: after the output callback has processed a ToneModeUpdate, the tone is
\* generated by the shape the newest such event selects: Sine for a sine mode
\* that is enabled, Square for one that is disabled.
C23_ToneModeApplied ==
    [][(OutputCallbackRan /\ HasCommand("ToneModeUpdate")) =>
          tone'.wave = (IF LastCommand("ToneModeUpdate").arg.flag
                        THEN "Sine" ELSE "Square")]_vars

\* C24: with no right channel selected, every block in the sample queue has
\* an empty right buffer and the left slots of one buffer as its left buffer,
\* the output callback leaves every slot but the left one of each frame as it
\* was, and the right reading of every notification is "-".
C24_MonoTouchesOnlyLeft ==
    stream.right = None =>
       LET n == ConfigChannels(stream.device)
       IN  /\ \A i \in 1..Len(sample_queue) :
                /\ sample_queue[i].right = <<>>
                /\ \E d \in FrameData[n] :
                      sample_queue[i].left = ChannelOf(d, n, stream.left)
           /\ \A i \in 1..Len(out_data.after) :
                 (i - 1) % n # stream.left =>
                    out_data.after[i] = out_data.before[i]
           /\ \A i \in 1..Len(display) :
                 display[i].type = "MeterLevelUpdate" =>
                    display[i].arg.right = <<"-">>

\* C27: every block in the sample queue holds the samples of one buffer in
\* frame order, the left slot of each frame in left and, with a right
\* channel, the right slot of each frame in right; after an invocation that
\* returned the closure's buffers are empty, so no sample of one invocation
\* is in the block of another.
C27_BlockIsOneInvocation ==
    engine = "LevelMeter" =>
       LET n == ConfigChannels(stream.device)
       IN  /\ \A i \in 1..Len(sample_queue) :
                \E d \in FrameData[n] :
                   /\ sample_queue[i].left = ChannelOf(d, n, stream.left)
                   /\ sample_queue[i].right =
                         (IF IsSome(stream.right)
                          THEN ChannelOf(d, n, Unwrap(stream.right))
                          ELSE <<>>)
           /\ stream.callback = "alive" => stream.samples = EmptyBuffers

\* A push failed on the full queue of a stereo stream, whose callback goes on.
C27_Witness ==
    /\ engine = "LevelMeter"
    /\ IsSome(stream.right)
    /\ stream.callback = "alive"
    /\ "full ring buffer" \in stderr
    /\ Len(sample_queue) = RING_BUFFER_SIZE
    /\ sample_queue[1] # sample_queue[2]

RECURSIVE NthGenerated(_, _)
\* What the k-th call of generate_tone_sample returns for a tone t.
NthGenerated(t, k) ==
    LET from == IF k = 1 THEN t
                ELSE [t EXCEPT !.phase = NthGenerated(t, k - 1).phase]
    IN  generate_tone_sample(from.phase, from.reference_frequency,
                             from.dbfs_adjustment_factor)

\* C28: an output callback that returns has written, for every frame, one
\* newly generated sample to the left slot and, with a right channel, the
\* same sample to the right slot, and has left every other slot of the frame
\* as it was.
C28_FrameWrite ==
    [][(OutputCallbackRan /\ stream'.callback = "alive") =>
          LET n == ConfigChannels(stream.device)
              t == ApplyCommands(tone_chan, tone)
              before == out_data'.before
              after == out_data'.after
          IN  /\ Len(after) = Len(before)
              /\ \A k \in 1..(Len(before) \div n) : \A c \in 0..(n - 1) :
                    after[(k - 1) * n + c + 1] =
                       (IF c = stream.left
                           \/ (IsSome(stream.right) /\ c = Unwrap(stream.right))
                        THEN NthGenerated(t, k).sample
                        ELSE before[(k - 1) * n + c + 1])]_vars

\* A stereo stream's callback has written both slots of both frames, with a
\* sample that differs from frame to frame.
C28_Witness ==
    /\ engine = "ToneGenerator"
    /\ stream.callback = "alive"
    /\ stream.left = 0 /\ stream.right = Some(1)
    /\ Len(out_data.after) = 4
    /\ out_data.after[1] = out_data.after[2]
    /\ out_data.after[3] = out_data.after[4]
    /\ out_data.after[1] # out_data.after[3]

\* The payload the newest pending command of the type carries, or the value
\* in force when none is pending.
LastPayload(type, current) ==
    IF HasCommand(type) THEN LastCommand(type).arg.level ELSE current

\* C30: an output callback empties the channel and applies the newest pending
\* ToneFrequencyUpdate and ToneLevelUpdate before it generates its first
\* sample; while the stream plays, pending commands are drained after
\* finitely many steps.
C30_UpdatesAppliedBeforeSamples ==
    /\ [][OutputCallbackRan =>
             LET frequency == LastPayload("ToneFrequencyUpdate",
                                          tone.reference_frequency)
                 factor == IF HasCommand("ToneLevelUpdate")
                           THEN get_dbfs_adjustment_factor_from_level(
                                   LastCommand("ToneLevelUpdate").arg.level)
                           ELSE tone.dbfs_adjustment_factor
             IN  /\ tone_chan' = <<>>
                 /\ tone'.reference_frequency = frequency
                 /\ tone'.dbfs_adjustment_factor = factor
                 /\ stream'.callback = "alive" =>
                       out_data'.after[stream.left + 1] =
                          generate_tone_sample(tone.phase, frequency,
                                               factor).sample]_vars
    /\ (tone_chan # <<>> /\ stream.state = "playing" /\ stream.callback = "alive")
          ~> (tone_chan = <<>>)

\* Two frequency updates and a level update were pending, the newest of each
\* kind is in force, and samples of that level were written.
C30_Witness ==
    /\ engine = "ToneGenerator"
    /\ stream.callback = "alive"
    /\ tone_chan = <<>>
    /\ tone.reference_frequency = 3
    /\ tone.dbfs_adjustment_factor = 501
    /\ \E i \in 1..Len(out_data.after) : Abs(out_data.after[i]) = 501

----------------------------------------------------------------------------
(* The life of the analysis thread *)

----------------------------------------------------------------------------
(* The window of a reading *)

\* C26: a reading is produced each time INPUT_BUFFERS_FOR_PEAK_CALCULATION
\* blocks have been accumulated, and is computed over exactly those blocks.
C26_WindowIsTheConstant ==
    [][UpdateSent =>
          /\ Len(left_collection) = INPUT_BUFFERS_FOR_PEAK_CALCULATION
          /\ Len(right_collection) = INPUT_BUFFERS_FOR_PEAK_CALCULATION]_vars

----------------------------------------------------------------------------
(* The phase of the Sine *)

\* What a call leaves: the phase advanced by phase_increment * frequency and
\* reset to 0 when that is a cycle or more; and for frequency 0 at phase 0,
\* phase 0 and sample 0.
AdvancedOrReset ==
    /\ tone'.phase = (IF tone.phase + tone.reference_frequency >= RADS_PER_CYCLE
                      THEN 0
                      ELSE tone.phase + tone.reference_frequency)
    /\ (tone.phase = 0 /\ tone.reference_frequency = 0) =>
          (tone'.phase = 0 /\ out_data'.after = <<0>>)

InCycle(phase) == 0 <= phase /\ phase < RADS_PER_CYCLE

\* C29 as stated: after every call with a non-negative frequency the phase is
\* in [0, 2 pi), advanced by phase_increment * frequency and reset to 0 when it
\* reaches or exceeds 2 pi; frequency 0 on a fresh generator keeps phase and
\* samples at 0.
C29_PhaseInCycleAfterCall ==
    [][tone.reference_frequency >= 0 =>
          (InCycle(tone'.phase) /\ AdvancedOrReset)]_vars

\* C29 amended: the same for every call with a non-negative frequency on a
\* generator whose phase is in [0, 2 pi) before the call, as it is when the
\* generator is fresh and no earlier call had a negative frequency.
C29_PhaseStaysInCycle ==
    [][(tone.reference_frequency >= 0 /\ InCycle(tone.phase)) =>
          (InCycle(tone'.phase) /\ AdvancedOrReset)]_vars

\* The phase is back at 0 after a call that took it from within the cycle
\* beyond the cycle's end, and the sample of that call is 0.
C29_Witness ==
    /\ tone.phase = 0
    /\ out_data.after = <<0>>
    /\ tone.reference_frequency = 5

----------------------------------------------------------------------------
(* The sample queue has one producer and one consumer at a time *)

\* C31: at any instant at most one data callback is between taking and
\* dropping the guard of the producer, and at most one spawned thread holds
\* the guard of the consumer, also while the old and the new stream of a
\* channel change are both open and after start_level_meter was called more
\* than once.
C31_OnePusherOnePopper ==
    /\ Cardinality(Pushing) <= 1
    /\ Cardinality(Popping) <= 1

\* C31 witness: during a channel change the new stream's callback holds the
\* producer while the old stream's callback waits for it, and of two spawned
\* threads one holds the consumer while the other waits for it.
C31_Witness ==
    /\ IsSome(pending)
    /\ Unwrap(pending).at = "locked"
    /\ stream.at = "frames"
    /\ \E k, j \in 1..MaxThreads : threads[k] = "loop" /\ threads[j] = "lock"

----------------------------------------------------------------------------
(* A channel change that fails *)

\* C32: once set_*_channel_on_ui_callback has returned an error, the labels
\* recorded in the engine's current-device record still resolve to the
\* channel indexes of the stream the engine holds.
C32_FailedChannelChangeKeepsSelection ==
    (/\ op = "none"
     /\ result.op = "channel"
     /\ result.status # "Ok")
        => LET r == get_channel_indexes_from_channel_names(
                        current_device.left_channel,
                        current_device.right_channel)
           IN  /\ r.ok
               /\ r.left = stream.left
               /\ r.right = stream.right

----------------------------------------------------------------------------
(* The tone of a rebuilt output stream *)

\* The held output stream is replaced by the one just built.
OutputStreamSwapped ==
    /\ engine = "ToneGenerator"
    /\ pc \in {"sd_assign", "ch_assign"}
    /\ pc' # pc

\* C33: the callback of the rebuilt output stream starts from the frequency
\* and the level factor the old stream's callback had when it was replaced.
C33_RebuildKeepsTone ==
    [][OutputStreamSwapped
          => /\ tone'.reference_frequency = tone.reference_frequency
             /\ tone'.dbfs_adjustment_factor = tone.dbfs_adjustment_factor]_vars

----------------------------------------------------------------------------
(* What the output callback takes from the channel *)

\* The events the output callback has no arm for and the claim names.
NotForTheCallback == {"Start", "Stop", "ToneDeviceUpdate"}

\* The events of a channel whose type is in types, in their order.
OfTypes(channel, types) == SelectSeq(channel, LAMBDA e : e.type \in types)

\* C34: no step takes a Start, Stop or ToneDeviceUpdate event from the tone
\* generator's channel: those that waited before the step wait after it, in
\* the same order, ahead of the ones the step added.
C34_CallbackTakesOnlyItsEvents ==
    [][LET kept == OfTypes(tone_chan, NotForTheCallback)
           after == OfTypes(tone_chan', NotForTheCallback)
       IN  /\ Len(after) >= Len(kept)
           /\ SubSeq(after, 1, Len(kept)) = kept]_vars

----------------------------------------------------------------------------
(* What a reset to the default device leaves *)

\* C35: as long as the last handler that finished is a
\* reset_to_default_*_device that returned Ok(d), the engine's current-device
\* record is d and its device handle and its stream are those of d.
C35_ResetBindsDefault ==
    (/\ op = "none"
     /\ result.op = "reset"
     /\ result.status = "Ok")
        => LET d == Unwrap(result.value)
           IN  /\ current_device = d
               /\ device = d.name
               /\ stream.device = d.name

----------------------------------------------------------------------------
(* The blocks of the analysis thread's windows *)

\* A step in which the analysis thread pops a block.
BlockPopped == sample_queue # <<>> /\ sample_queue' = Tail(sample_queue)

\* The collections hold more blocks than the constant: the turn computes a
\* reading from them.
WindowCloses == Len(left_collection) > INPUT_BUFFERS_FOR_PEAK_CALCULATION

\* C36: the two collections always have the same length.  A popped block
\* joins the blocks collected so far, none of which is dropped, or, when the
\* turn computes a reading, it starts the next window alone: the reading is
\* the peak over every block collected since the previous reading, and none
\* of them is in the collection afterwards.
C36_EveryBlockInOneWindow ==
    /\ [](Len(left_collection) = Len(right_collection))
    /\ [][BlockPopped =>
            LET popped == Head(sample_queue)
            IN  /\ left_collection' =
                      <<popped.left>>
                          \o (IF WindowCloses THEN <<>> ELSE left_collection)
                /\ right_collection' =
                      <<popped.right>>
                          \o (IF WindowCloses THEN <<>> ELSE right_collection)
                /\ last_peak' # last_peak =>
                      /\ WindowCloses
                      /\ last_peak'.left =
                            get_peak_of_sine_wave_samples(Flatten(left_collection))
                      /\ last_peak'.right =
                            get_peak_of_sine_wave_samples(Flatten(right_collection))]_vars

\* C36 witness: a reading was computed from the blocks of a one-channel
\* stream, the right ones empty, and the block popped in that turn is alone
\* in the next window.
C36_Witness ==
    /\ emitted # None
    /\ Len(left_collection) = 1
    /\ right_collection = << <<>> >>
    /\ left_collection[1] # <<>>

----------------------------------------------------------------------------
(* The index of the LevelMeter's current device *)

\* C37: whenever no handler of the LevelMeter is being executed, the index of
\* its current-device record is a position of its device list and the name at
\* that position is the record's name.
C37_IndexNamesCurrentDevice ==
    (engine = "LevelMeter" /\ op = "none")
        => /\ current_device.index + 1 \in 1..Len(device_list.devices)
           /\ device_list.devices[current_device.index + 1] = current_device.name

----------------------------------------------------------------------------
(* Where UI::run ends *)

\* C38: UI::run is in its loop until it has taken Exit from its channel: no
\* other event makes it return or panic.
C38_RunLeavesOnlyOnExit == ui.pc \in {"recv", "done"}

----------------------------------------------------------------------------
(* What closing an error dialog does *)

\* C39: once create_ui_callbacks has registered the handlers, closing the
\* recoverable-error dialog hides that dialog and does not end the process.
C39_ClosingErrorDialogOnlyHides ==
    [][(ui.callbacks # NoCallbacks /\ CloseDialog("error"))
          => (~exited' /\ ~ui'.error_dialog_visible)]_vars

====
